---------------------------- MODULE Spec2Model ----------------------------
(***************************************************************************)
(* A state-machine model of mpocv::Figure (MatPlotOpenCV): the retained    *)
(* command list, the data bounds, the axis model, the deferred render pass *)
(* with its axis resolution, tick generation and legend, and the two image *)
(* sinks.                                                                  *)
(*                                                                         *)
(* Numbers.  A C++ double is modelled as a fixed-point number: the integer *)
(* v stands for v / Unit data units.  Sums and comparisons are exact; a    *)
(* product or quotient is rounded to the nearest quantum (RoundDiv), as a  *)
(* double operation is rounded to the nearest representable value.  The    *)
(* inputs are chosen so that the operations the properties depend on are   *)
(* exact.  The comparisons against 1e-12 in the source are below the       *)
(* quantum and compare against 0.  +inf and -inf are PosInf and NegInf.    *)
(* A float style value (fill_alpha, thickness, marker_size) is kept in     *)
(* hundredths.                                                             *)
(*                                                                         *)
(* Canvas.  The pixel buffer is modelled by the list of drawing-primitive  *)
(* calls made on it since it was last cleared, each with its pixel         *)
(* arguments: the primitives themselves (OpenCV) are deterministic and     *)
(* outside the program.                                                    *)
(***************************************************************************)
EXTENDS Integers, Sequences, FiniteSets, TLC

(***************************************************************************)
(* Bounds of the model.                                                    *)
(***************************************************************************)
MaxCalls == 3
MaxAxesCalls == 4
MaxLegendCalls == 5
MaxTwoCalls == 3
MaxDrawCalls == 7
MaxShapeCalls == 2
MaxLabelCalls == 5
MaxBoundsCalls == 3

(***************************************************************************)
(* Program constants.                                                      *)
(***************************************************************************)
kMarginLeft == 60
kMarginRight == 20
kMarginTop == 40
kMarginBottom == 60
kTickLen == 5
kMargin == 50

Unit == 10 * 1000
PosInf == 2^30
NegInf == -(2^30)

(***************************************************************************)
(* Arithmetic helpers.                                                     *)
(***************************************************************************)
Abs(a) == IF a < 0 THEN -a ELSE a
Min2(a, b) == IF b < a THEN b ELSE a
Max2(a, b) == IF a < b THEN b ELSE a

\* a / b truncated toward zero: static_cast<int>(double), b # 0.
TruncDiv(a, b) ==
    LET n == IF b < 0 THEN -a ELSE a
        d == Abs(b)
    IN  IF n >= 0 THEN n \div d ELSE -((-n) \div d)

\* a / b rounded to the nearest integer, ties away from zero, b # 0.
RoundDiv(a, b) ==
    LET n == IF b < 0 THEN -a ELSE a
        d == Abs(b)
    IN  IF n >= 0 THEN (2 * n + d) \div (2 * d) ELSE -((2 * (-n) + d) \div (2 * d))

\* floor(a / b) and ceil(a / b) for b > 0.
FloorDiv(a, b) == a \div b
CeilDiv(a, b) == -((-a) \div b)

\* static_cast<int>(v + 0.5) for the rational v = n / d, d # 0.
CastHalfUp(n, d) == TruncDiv(2 * n + d, 2 * d)

VARIABLES
    width_, height_,        \* canvas dimensions in pixels
    canvas_,                \* the pixel buffer: the primitive calls since the last clear
    cmds_,                  \* retained plot commands
    axes_,                  \* Axes: limits and policy flags
    title_, xlabel_, ylabel_,
    dirty_,
    legend_loc_, legend_on_,
    data_bounds_,           \* Bounds
    ylabel_cache_,          \* the text the rotated bitmap was built from
    ylabel_cache_valid_,
    last,                   \* the last public call and how it returned
    clean,                  \* the retained state at the end of the last render pass
    passes,                 \* render passes run so far
    ncalls,                 \* public calls made so far
    tk,                     \* make_ticks probe: arguments and result
    threads,                \* two threads, one Figure each: the scheduler's view
    probe,                  \* a helper applied on its own: arguments and result
    pc                      \* two threads, one Figure: the call and the place the
                            \* rendering thread is at

figvars == <<width_, height_, canvas_, cmds_, axes_, title_, xlabel_, ylabel_,
             dirty_, legend_loc_, legend_on_, data_bounds_, ylabel_cache_,
             ylabel_cache_valid_, last, clean, passes>>
vars == <<figvars, ncalls, tk, threads, probe, pc>>

(***************************************************************************)
(* Bounds (figure.h): the box of the absorbed points.                      *)
(***************************************************************************)
BoundsInit == [xmin |-> PosInf, xmax |-> NegInf, ymin |-> PosInf, ymax |-> NegInf]

\* Faulty variant of expand: the upper ends are folded with min as well.
expand_min_only(b, x, y) ==
    [xmin |-> Min2(b.xmin, x), xmax |-> Min2(b.xmax, x),
     ymin |-> Min2(b.ymin, y), ymax |-> Min2(b.ymax, y)]

expand(b, x, y) ==
    [xmin |-> Min2(b.xmin, x), xmax |-> Max2(b.xmax, x),
     ymin |-> Min2(b.ymin, y), ymax |-> Max2(b.ymax, y)]

valid(b) == b.xmin # PosInf /\ b.xmin # NegInf

\* y[i] as operator[] reads it: past the end the read is undefined and
\* yields the arbitrary value g.
At(y, i, g) == IF i <= Len(y) THEN y[i] ELSE g

RECURSIVE expand_from(_, _, _, _, _)
expand_from(b, xs, ys, i, g) ==
    IF i > Len(xs) THEN b
    ELSE expand_from(expand(b, xs[i], At(ys, i, g)), xs, ys, i + 1, g)

\* Figure::expand_bounds: one expand per element of xs.
expand_bounds(b, xs, ys, g) == expand_from(b, xs, ys, 1, g)

(***************************************************************************)
(* Axes (axes.h) and the plot rectangle.                                   *)
(***************************************************************************)
AxesInit ==
    [xmin |-> 0, xmax |-> Unit, ymin |-> 0, ymax |-> Unit,
     pad_frac |-> (5 * Unit) \div 100,
     autoscale |-> TRUE, equal_scale |-> FALSE, grid |-> FALSE]

plot_width == width_ - kMarginLeft - kMarginRight
plot_height == height_ - kMarginTop - kMarginBottom

\* Figure::data_to_pixel under the axis rectangle a.
data_to_pixel(a, x, y) ==
    <<kMarginLeft + CastHalfUp((x - a.xmin) * plot_width, a.xmax - a.xmin),
      height_ - kMarginBottom - CastHalfUp((y - a.ymin) * plot_height, a.ymax - a.ymin)>>


(***************************************************************************)
(* Axis resolution: steps 1, 1b and 2 of Figure::render, and the span      *)
(* helpers.                                                                *)
(***************************************************************************)
\* Faulty variant of autoscale_step: the fallback to the unit square is missing.
autoscale_step_no_fallback(a, b) ==
    IF a.autoscale /\ valid(b)
    THEN [a EXCEPT !.xmin = b.xmin, !.xmax = b.xmax,
                   !.ymin = b.ymin, !.ymax = b.ymax]
    ELSE a

\* Faulty variant of autoscale_step: the data bounds widen the limits left
\* by earlier calls instead of replacing them.
autoscale_step_widen(a, b) ==
    IF a.autoscale
    THEN IF valid(b)
         THEN [a EXCEPT !.xmin = Min2(a.xmin, b.xmin), !.xmax = Max2(a.xmax, b.xmax),
                        !.ymin = Min2(a.ymin, b.ymin), !.ymax = Max2(a.ymax, b.ymax)]
         ELSE [a EXCEPT !.xmin = 0, !.xmax = Unit, !.ymin = 0, !.ymax = Unit]
    ELSE a

\* Step 1: with autoscale the rectangle is the data bounds, or the unit
\* square when nothing has been absorbed.
autoscale_step(a, b) ==
    IF a.autoscale
    THEN IF valid(b)
         THEN [a EXCEPT !.xmin = b.xmin, !.xmax = b.xmax,
                        !.ymin = b.ymin, !.ymax = b.ymax]
         ELSE [a EXCEPT !.xmin = 0, !.xmax = Unit, !.ymin = 0, !.ymax = Unit]
    ELSE a

\* Faulty variant of pad_step: the padding is applied with the wrong sign.
pad_step_inward(a) ==
    IF a.pad_frac > 0
    THEN LET dx == RoundDiv((a.xmax - a.xmin) * a.pad_frac, Unit)
             dy == RoundDiv((a.ymax - a.ymin) * a.pad_frac, Unit)
         IN  [a EXCEPT !.xmin = a.xmin + dx, !.xmax = a.xmax - dx,
                       !.ymin = a.ymin + dy, !.ymax = a.ymax - dy]
    ELSE a

\* Step 1b: each span grows by pad_frac of itself on both ends.
pad_step(a) ==
    IF a.pad_frac > 0
    THEN LET dx == RoundDiv((a.xmax - a.xmin) * a.pad_frac, Unit)
             dy == RoundDiv((a.ymax - a.ymin) * a.pad_frac, Unit)
         IN  [a EXCEPT !.xmin = a.xmin - dx, !.xmax = a.xmax + dx,
                       !.ymin = a.ymin - dy, !.ymax = a.ymax + dy]
    ELSE a

\* Figure::ensure_nonzero_span: the pair <<lo, hi>> after the call.
ensure_nonzero_span(lo, hi) ==
    IF lo = hi
    THEN LET eps == IF Abs(lo) > 0 THEN RoundDiv(Abs(lo), 1000) ELSE Unit \div 1000
         IN  <<lo - eps, hi + eps>>
    ELSE <<lo, hi>>

\* Figure::fix_ranges.
fix_ranges(a) ==
    LET x == ensure_nonzero_span(a.xmin, a.xmax)
        y == ensure_nonzero_span(a.ymin, a.ymax)
    IN  [a EXCEPT !.xmin = x[1], !.xmax = x[2], !.ymin = y[1], !.ymax = y[2]]

\* Step 2: both axes get the larger of the two spans around their midpoints.
equal_scale_step(a) ==
    IF a.equal_scale
    THEN LET xrange == a.xmax - a.xmin
             yrange == a.ymax - a.ymin
             span == Max2(xrange, yrange)
             xmid == RoundDiv(a.xmin + a.xmax, 2)
             ymid == RoundDiv(a.ymin + a.ymax, 2)
             half == RoundDiv(span, 2)
         IN  [a EXCEPT !.xmin = xmid - half, !.xmax = xmid + half,
                       !.ymin = ymid - half, !.ymax = ymid + half]
    ELSE a

\* The axis rectangle a render pass resolves from axes a and bounds b.
resolve_axes(a, b) ==
    fix_ranges(equal_scale_step(fix_ranges(pad_step(autoscale_step(a, b)))))

(***************************************************************************)
(* Tick helpers.  Inside make_ticks a value is kept in tenths of a         *)
(* quantum (Sub per quantum), which holds every step nice_num can return   *)
(* for a range of at least one quantum.                                    *)
(***************************************************************************)
Sub == 2 * 5

\* The largest power of ten that is at most r, for r >= 1: 10^floor(log10 r).
RECURSIVE decade_from(_, _)
decade_from(r, p) == IF 10 * p > r THEN p ELSE decade_from(r, 10 * p)
decade(r) == decade_from(r, 1)

\* Figure::nice_num on a value in tenths of a quantum.
nice_num(range, round) ==
    LET r == IF range <= 0 THEN Sub * Unit ELSE range
        p == decade(r)            \* f = r / p lies in [1, 10)
        nf == IF round
              THEN IF 2 * r < 3 * p THEN 1
                   ELSE IF r < 3 * p THEN 2
                   ELSE IF r < 7 * p THEN 5
                   ELSE 10
              ELSE IF r <= p THEN 1
                   ELSE IF r <= 2 * p THEN 2
                   ELSE IF r <= 5 * p THEN 5
                   ELSE 10
    IN  nf * p

\* The label of tick v for a step: v printed with 1 decimal when step < 1,
\* else with none; n is the printed number in units of the last digit
\* (text is the field of a drawn string, empty for a number).
tick_label(v, step) ==
    IF step < Sub * Unit
    THEN [prec |-> 1, n |-> RoundDiv(v, Unit), text |-> ""]
    ELSE [prec |-> 0, n |-> RoundDiv(v, Sub * Unit), text |-> ""]

\* Faulty variant of tick_loop: every multiple of the step on the snapped grid is
\* kept.
RECURSIVE tick_loop_unclipped(_, _, _, _, _)
tick_loop_unclipped(v, graph_hi, step, lo, hi) ==
    IF 2 * v > 2 * graph_hi + step THEN <<>>
    ELSE <<[loc |-> v, label |-> tick_label(v, step)]>>
             \o tick_loop_unclipped(v + step, graph_hi, step, lo, hi)

\* The loop of make_ticks from v on: the ticks kept are those in [lo, hi].
RECURSIVE tick_loop(_, _, _, _, _)
tick_loop(v, graph_hi, step, lo, hi) ==
    IF 2 * v > 2 * graph_hi + step THEN <<>>
    ELSE IF v < lo \/ v > hi THEN tick_loop(v + step, graph_hi, step, lo, hi)
    ELSE <<[loc |-> v, label |-> tick_label(v, step)]>>
             \o tick_loop(v + step, graph_hi, step, lo, hi)

\* Figure::make_ticks(lo, hi, target): lo and hi in quanta, the tick
\* locations in tenths of a quantum.
make_ticks(lo, hi, target) ==
    LET range == nice_num(Sub * (hi - lo), FALSE)
        step == nice_num(RoundDiv(range, target - 1), TRUE)
        graph_lo == FloorDiv(Sub * lo, step) * step
        graph_hi == CeilDiv(Sub * hi, step) * step
        ts == tick_loop(graph_lo, graph_hi, step, Sub * lo, Sub * hi)
    IN  [locs |-> [i \in 1..Len(ts) |-> ts[i].loc],
         labels |-> [i \in 1..Len(ts) |-> ts[i].label]]

kTickTarget == 6


(***************************************************************************)
(* Commands (plot_command.h).  One record shape for every CmdType: x and y *)
(* are the coordinate vectors of Line, Scatter and Polygon; g is the       *)
(* scalar geometry of the other kinds (Text <<x, y>>, Circle <<cx, cy,     *)
(* radius>>, Rect <<x0, y0, x1, y1>>, RotatedRect and Ellipse <<cx, cy,    *)
(* width, height, angle_deg>>); w is the line thickness or marker size;    *)
(* txt is the TextData.                                                    *)
(***************************************************************************)
DefaultStyle ==
    [line_color |-> "black", thickness |-> 100, fill_color |-> "white", fill_alpha |-> 100]

NoText == [text |-> "", font_scale |-> 40, thickness |-> 1, halign |-> "Left", valign |-> "Baseline"]

PlotCommand(type, color, label, x, y, g, w, style, txt) ==
    [type |-> type, color |-> color, label |-> label, x |-> x, y |-> y,
     g |-> g, w |-> w, style |-> style, txt |-> txt]

\* static_cast<int>(f) of a float kept in hundredths.
IntOf(f) == TruncDiv(f, 100)

\* The integer square root: sqrt rounded down.
RECURSIVE isqrt_between(_, _, _)
isqrt_between(n, lo, hi) ==
    IF hi - lo <= 1 THEN lo
    ELSE LET mid == (lo + hi) \div 2
         IN  IF mid * mid <= n THEN isqrt_between(n, mid, hi)
             ELSE isqrt_between(n, lo, mid)
ISqrt(n) == isqrt_between(n, 0, 2^15)

(***************************************************************************)
(* The drawing primitives: one record per call.  dst is the buffer drawn   *)
(* on ("canvas", or "tmp" for the scratch copy of a translucent fill), a   *)
(* the pixel arguments, c the colour, w the thickness (FILLED for a fill), *)
(* s the text drawn.                                                       *)
(***************************************************************************)
FILLED == -1

Txt(t) == [prec |-> -1, n |-> 0, text |-> t]
NoTxt == Txt("")

Op(op, dst, a, c, w, s) ==
    [op |-> op, dst |-> dst, a |-> a, c |-> c, w |-> w, s |-> s, step |-> "", k |-> 0]

\* The calls ops marked with the step of the render pass that makes them
\* and, for step 6, the index k of the command drawn.
Tag(step, k, ops) == [i \in 1..Len(ops) |-> [ops[i] EXCEPT !.step = step, !.k = k]]

\* cv::getTextSize for FONT_HERSHEY_SIMPLEX at a font scale in hundredths:
\* the glyph metrics are those of the font, of which only the growth with
\* the text length and the scale is kept.
getTextSize(text, scale) ==
    [width |-> (Len(text) * 20 * scale) \div 100,
     height |-> (22 * scale) \div 100,
     baseline |-> (10 * scale) \div 100]

\* The white buffer the constructor allocates and step 4 of render restores.
Blank == Tag("clear", 0, <<Op("setTo", "canvas", <<>>, "white", FILLED, NoTxt)>>)

\* The axis rectangle in tenths of a quantum, for mapping tick locations.
InSub(a) ==
    [a EXCEPT !.xmin = Sub * a.xmin, !.xmax = Sub * a.xmax,
              !.ymin = Sub * a.ymin, !.ymax = Sub * a.ymax]

\* Figure::draw_grid.
draw_grid(a, xt, yt) ==
    IF ~a.grid THEN <<>>
    ELSE LET s == InSub(a)
             xin == SelectSeq(xt.locs, LAMBDA v : ~(v < s.xmin \/ v > s.xmax))
             yin == SelectSeq(yt.locs, LAMBDA v : ~(v < s.ymin \/ v > s.ymax))
         IN  [i \in 1..Len(xin) |->
                 Op("line", "canvas",
                    data_to_pixel(s, xin[i], s.ymin) \o data_to_pixel(s, xin[i], s.ymax),
                    "light", 1, NoTxt)]
             \o
             [i \in 1..Len(yin) |->
                 Op("line", "canvas",
                    data_to_pixel(s, s.xmin, yin[i]) \o data_to_pixel(s, s.xmax, yin[i]),
                    "light", 1, NoTxt)]

\* The tick mark and the label of tick i of an axis, in draw order.
RECURSIVE tick_ops(_, _, _, _)
tick_ops(a, t, xaxis, i) ==
    IF i > Len(t.locs) THEN <<>>
    ELSE LET s == InSub(a)
             p == IF xaxis THEN data_to_pixel(s, t.locs[i], s.ymin)
                           ELSE data_to_pixel(s, s.xmin, t.locs[i])
         IN  (IF xaxis
              THEN <<Op("line", "canvas", <<p[1], p[2], p[1], p[2] + kTickLen>>, "black", 1, NoTxt),
                     Op("putText", "canvas", <<p[1] - 10, p[2] + 18>>, "black", 1, t.labels[i])>>
              ELSE <<Op("line", "canvas", <<p[1] - kTickLen, p[2], p[1], p[2]>>, "black", 1, NoTxt),
                     Op("putText", "canvas", <<p[1] - 30, p[2] + 4>>, "black", 1, t.labels[i])>>)
             \o tick_ops(a, t, xaxis, i + 1)

\* Figure::draw_axes.
draw_axes(a, xt, yt) ==
    <<Op("line", "canvas",
         <<kMarginLeft, height_ - kMarginBottom, width_ - kMarginRight, height_ - kMarginBottom>>,
         "black", 1, NoTxt)>>
    \o tick_ops(a, xt, TRUE, 1)
    \o <<Op("line", "canvas",
            <<kMarginLeft, kMarginTop, kMarginLeft, height_ - kMarginBottom>>,
            "black", 1, NoTxt)>>
    \o tick_ops(a, yt, FALSE, 1)


(***************************************************************************)
(* Step 6 of render: the primitives one retained command draws.            *)
(***************************************************************************)
\* Faulty variant of shape_ops: a translucent fill is drawn straight on the
\* canvas, like an opaque one.
shape_ops_no_blend(style, fill, stroke, a) ==
    (IF style.fill_alpha > 0
     THEN <<Op(fill, "canvas", a, style.fill_color, FILLED, NoTxt)>>
     ELSE <<>>)
    \o
    (IF style.thickness > 0
     THEN <<Op(stroke, "canvas", a, style.line_color, IntOf(style.thickness), NoTxt)>>
     ELSE <<>>)

\* Faulty variant of shape_ops: the stroke is drawn before the fill.
shape_ops_stroke_first(style, fill, stroke, a) ==
    (IF style.thickness > 0
     THEN <<Op(stroke, "canvas", a, style.line_color, IntOf(style.thickness), NoTxt)>>
     ELSE <<>>)
    \o
    (IF style.fill_alpha > 0 /\ style.fill_alpha < 100
     THEN <<Op("clone", "tmp", <<>>, "none", 0, NoTxt),
            Op(fill, "tmp", a, style.fill_color, FILLED, NoTxt),
            Op("addWeighted", "canvas", <<style.fill_alpha, 100 - style.fill_alpha>>,
               "none", 0, NoTxt)>>
     ELSE IF style.fill_alpha >= 100
     THEN <<Op(fill, "canvas", a, style.fill_color, FILLED, NoTxt)>>
     ELSE <<>>)

\* The fill and the stroke of a shape: a translucent fill goes to a scratch
\* copy that blend_shape composites back, an opaque one straight to the
\* canvas, and the stroke follows on the canvas.
shape_ops(style, fill, stroke, a) ==
    (IF style.fill_alpha > 0 /\ style.fill_alpha < 100
     THEN <<Op("clone", "tmp", <<>>, "none", 0, NoTxt),
            Op(fill, "tmp", a, style.fill_color, FILLED, NoTxt),
            Op("addWeighted", "canvas", <<style.fill_alpha, 100 - style.fill_alpha>>,
               "none", 0, NoTxt)>>
     ELSE IF style.fill_alpha >= 100
     THEN <<Op(fill, "canvas", a, style.fill_color, FILLED, NoTxt)>>
     ELSE <<>>)
    \o
    (IF style.thickness > 0
     THEN <<Op(stroke, "canvas", a, style.line_color, IntOf(style.thickness), NoTxt)>>
     ELSE <<>>)

\* Figure::anchored_text_pos.
anchored_text_pos(a, cmd) ==
    LET td == cmd.txt
        sz == getTextSize(td.text, td.font_scale)
        p == data_to_pixel(a, cmd.g[1], cmd.g[2])
        px == IF td.halign = "Center" THEN p[1] - sz.width \div 2
              ELSE IF td.halign = "Right" THEN p[1] - sz.width
              ELSE p[1]
        py == IF td.valign = "Center" THEN p[2] + sz.height \div 2
              ELSE IF td.valign = "Top" THEN p[2] + sz.height
              ELSE IF td.valign = "Bottom" THEN p[2] - sz.baseline
              ELSE p[2]
    IN  <<px, py>>

\* The pixel vertices of a coordinate vector pair; a read of y past its end
\* yields g.
RECURSIVE pixel_points(_, _, _, _, _)
pixel_points(a, x, y, i, g) ==
    IF i > Len(x) THEN <<>>
    ELSE data_to_pixel(a, x[i], At(y, i, g)) \o pixel_points(a, x, y, i + 1, g)

\* One case of the switch over cmd.type.
draw_cmd(a, cmd, g) ==
    CASE cmd.type = "Line" ->
            [i \in 1..(IF Len(cmd.x) = 0 THEN 0 ELSE Len(cmd.x) - 1) |->
                Op("line", "canvas",
                   data_to_pixel(a, cmd.x[i], At(cmd.y, i, g))
                       \o data_to_pixel(a, cmd.x[i + 1], At(cmd.y, i + 1, g)),
                   cmd.color, IntOf(cmd.w), NoTxt)]
      [] cmd.type = "Scatter" ->
            [i \in 1..Len(cmd.x) |->
                Op("circle", "canvas",
                   data_to_pixel(a, cmd.x[i], At(cmd.y, i, g)) \o <<IntOf(cmd.w)>>,
                   cmd.color, FILLED, NoTxt)]
      [] cmd.type = "Text" ->
            <<Op("putText", "canvas", anchored_text_pos(a, cmd), cmd.color,
                 cmd.txt.thickness, Txt(cmd.txt.text))>>
      [] cmd.type = "Circle" ->
            shape_ops(cmd.style, "circle", "circle",
                      data_to_pixel(a, cmd.g[1], cmd.g[2])
                          \o <<TruncDiv(cmd.g[3] * plot_width, a.xmax - a.xmin)>>)
      [] cmd.type \in {"RectXYWH", "RectLTRB"} ->
            shape_ops(cmd.style, "rectangle", "rectangle",
                      data_to_pixel(a, cmd.g[1], cmd.g[2])
                          \o data_to_pixel(a, cmd.g[3], cmd.g[4]))
      [] cmd.type = "RotatedRect" ->
            shape_ops(cmd.style, "fillConvexPoly", "polylines",
                      data_to_pixel(a, cmd.g[1], cmd.g[2])
                          \o <<TruncDiv(cmd.g[3] * plot_width, a.xmax - a.xmin),
                               TruncDiv(cmd.g[4] * plot_height, a.ymax - a.ymin),
                               -cmd.g[5]>>)
      [] cmd.type = "Polygon" ->
            shape_ops(cmd.style, "fillPoly", "polylines",
                      pixel_points(a, cmd.x, cmd.y, 1, g))
      [] cmd.type = "Ellipse" ->
            shape_ops(cmd.style, "ellipse", "ellipse",
                      data_to_pixel(a, cmd.g[1], cmd.g[2])
                          \o <<TruncDiv(cmd.g[3] * plot_width, 2 * (a.xmax - a.xmin)),
                               TruncDiv(cmd.g[4] * plot_height, 2 * (a.ymax - a.ymin)),
                               -cmd.g[5]>>)

\* The loop over cmds_ from command i on.
RECURSIVE draw_cmds(_, _, _, _)
draw_cmds(a, cmds, i, g) ==
    IF i > Len(cmds) THEN <<>>
    ELSE Tag("cmd", i, draw_cmd(a, cmds[i], g)) \o draw_cmds(a, cmds, i + 1, g)

(***************************************************************************)
(* Step 7: the legend.                                                     *)
(***************************************************************************)
\* Faulty variant of legend_anchor: the right and bottom margins are left
\* out of the far edges.
legend_anchor_no_margin(loc, boxW, boxH) ==
    LET left == kMarginLeft
        right == width_ - boxW
        top == kMarginTop
        bottom == height_ - boxH
        hmid == left + TruncDiv(plot_width - boxW, 2)
        vmid == top + TruncDiv(plot_height - boxH, 2)
    IN  IF loc = "northWest" THEN <<left, top>>
        ELSE IF loc = "north" THEN <<hmid, top>>
        ELSE IF loc = "northEast" THEN <<right, top>>
        ELSE IF loc = "west" THEN <<left, vmid>>
        ELSE IF loc = "center" THEN <<hmid, vmid>>
        ELSE IF loc = "east" THEN <<right, vmid>>
        ELSE IF loc = "southWest" THEN <<left, bottom>>
        ELSE IF loc = "south" THEN <<hmid, bottom>>
        ELSE <<right, bottom>>

\* Figure::legend_anchor for a location keyword.
legend_anchor(loc, boxW, boxH) ==
    LET left == kMarginLeft
        right == width_ - kMarginRight - boxW
        top == kMarginTop
        bottom == height_ - kMarginBottom - boxH
        hmid == left + TruncDiv(plot_width - boxW, 2)
        vmid == top + TruncDiv(plot_height - boxH, 2)
    IN  IF loc = "northWest" THEN <<left, top>>
        ELSE IF loc = "north" THEN <<hmid, top>>
        ELSE IF loc = "northEast" THEN <<right, top>>
        ELSE IF loc = "west" THEN <<left, vmid>>
        ELSE IF loc = "center" THEN <<hmid, vmid>>
        ELSE IF loc = "east" THEN <<right, vmid>>
        ELSE IF loc = "southWest" THEN <<left, bottom>>
        ELSE IF loc = "south" THEN <<hmid, bottom>>
        ELSE <<right, bottom>>

\* Faulty variant of legend_items: unlabelled commands are listed too.
legend_items_unfiltered(cmds) == cmds

\* The commands the legend lists: those with a non-empty label, in order.
legend_items(cmds) == SelectSeq(cmds, LAMBDA c : c.label # "")

\* The widest label of the items.
RECURSIVE max_text_width(_, _)
max_text_width(items, i) ==
    IF i > Len(items) THEN 0
    ELSE Max2(getTextSize(items[i].label, 40).width, max_text_width(items, i + 1))

\* The tallest label of the items, descender included.
RECURSIVE max_text_height(_, _)
max_text_height(items, i) ==
    IF i > Len(items) THEN 0
    ELSE LET sz == getTextSize(items[i].label, 40)
         IN  Max2(sz.height + sz.baseline, max_text_height(items, i + 1))

\* The swatch and the label text of entry i (0-based k = i - 1).
legend_entry(item, anchor, k, lh, sw) ==
    LET y == anchor[2] + 5 + k * lh + lh \div 2
    IN  <<IF item.type = "Line"
          THEN Op("line", "canvas", <<anchor[1] + 5, y, anchor[1] + 5 + sw, y>>,
                  item.color, 2, NoTxt)
          ELSE IF item.type \in {"Scatter", "Circle"}
          THEN Op("circle", "canvas", <<anchor[1] + 5 + sw \div 2, y, 4>>,
                  item.color, FILLED, NoTxt)
          ELSE Op("rectangle", "canvas",
                  <<anchor[1] + 5, y - 4, anchor[1] + 5 + sw, y + 4>>,
                  item.color, FILLED, NoTxt),
          Op("putText", "canvas", <<anchor[1] + 5 + sw + 8, y + 4>>, "black", 1,
             Txt(item.label))>>

RECURSIVE legend_entries(_, _, _, _, _)
legend_entries(items, anchor, i, lh, sw) ==
    IF i > Len(items) THEN <<>>
    ELSE legend_entry(items[i], anchor, i - 1, lh, sw)
             \o legend_entries(items, anchor, i + 1, lh, sw)

draw_legend(on, loc, cmds) ==
    LET items == legend_items(cmds)
    IN  IF ~on \/ Len(items) = 0 THEN <<>>
        ELSE LET textH == max_text_height(items, 1)
                 sw == 20
                 lh == textH + 6
                 boxW == sw + 8 + max_text_width(items, 1) + 10
                 boxH == lh * Len(items) + 10
                 anchor == legend_anchor(loc, boxW, boxH)
                 box == <<anchor[1], anchor[2], anchor[1] + boxW, anchor[2] + boxH>>
             IN  <<Op("rectangle", "canvas", box, "white", FILLED, NoTxt),
                   Op("rectangle", "canvas", box, "black", 1, NoTxt)>>
                 \o legend_entries(items, anchor, 1, lh, sw)

(***************************************************************************)
(* Step 8: title and labels.                                               *)
(***************************************************************************)
draw_title(title, xlabel) ==
    (IF title # ""
     THEN <<Op("putText", "canvas", <<kMargin, kMargin \div 2>>, "black", 1, Txt(title))>>
     ELSE <<>>)
    \o
    (IF xlabel # ""
     THEN <<Op("putText", "canvas", <<width_ \div 2 - 40, height_ - 10>>, "black", 1,
               Txt(xlabel))>>
     ELSE <<>>)

\* The rotated bitmap draw_ylabel builds from a text: the text it shows and
\* its size after the rotation by 90 degrees.
ylabel_bitmap(text) ==
    LET sz == getTextSize(text, 50)
    IN  [text |-> text, rows |-> sz.width, cols |-> sz.height + sz.baseline]

EmptyMat == [text |-> "", rows |-> 0, cols |-> 0]

\* The cache after draw_ylabel: rebuilt only when the label is non-empty
\* and the cache is not valid.
ylabel_cache_after(ylabel, cache, cache_valid) ==
    IF ylabel # "" /\ ~cache_valid THEN ylabel_bitmap(ylabel) ELSE cache

\* Faulty variant of ylabel_valid_after: the flag is never set, so every
\* pass finds the cache stale.
ylabel_valid_never(ylabel, cache_valid) == cache_valid

ylabel_valid_after(ylabel, cache_valid) ==
    IF ylabel # "" THEN TRUE ELSE cache_valid

\* The blit of draw_ylabel, made when the bitmap fits the canvas.
draw_ylabel(ylabel, cache, cache_valid) ==
    IF ylabel = "" THEN <<>>
    ELSE LET c == ylabel_cache_after(ylabel, cache, cache_valid)
             x == kMarginLeft - 55
             y == kMarginTop + TruncDiv(plot_height - c.rows, 2)
         IN  IF x >= 0 /\ y >= 0 /\ x + c.cols <= width_ /\ y + c.rows <= height_
             THEN <<Op("copyTo", "canvas", <<x, y, c.cols, c.rows>>, "none", 0, Txt(c.text))>>
             ELSE <<>>


\* Faulty variant of render_canvas: the legend is drawn before the retained
\* commands.
render_canvas_legend_first(a, g) ==
    LET xt == make_ticks(a.xmin, a.xmax, kTickTarget)
        yt == make_ticks(a.ymin, a.ymax, kTickTarget)
    IN  Blank
        \o Tag("grid", 0, draw_grid(a, xt, yt))
        \o Tag("axes", 0, draw_axes(a, xt, yt))
        \o Tag("legend", 0, draw_legend(legend_on_, legend_loc_, cmds_))
        \o draw_cmds(a, cmds_, 1, g)
        \o Tag("title", 0, draw_title(title_, xlabel_))
        \o Tag("ylabel", 0, draw_ylabel(ylabel_, ylabel_cache_, ylabel_cache_valid_))

(***************************************************************************)
(* Steps 3 to 8 of render: the canvas a pass draws under the resolved      *)
(* rectangle a.  g is the value an out-of-range read of a coordinate       *)
(* vector yields.                                                          *)
(***************************************************************************)
render_canvas(a, g) ==
    LET xt == make_ticks(a.xmin, a.xmax, kTickTarget)
        yt == make_ticks(a.ymin, a.ymax, kTickTarget)
    IN  Blank
        \o Tag("grid", 0, draw_grid(a, xt, yt))
        \o Tag("axes", 0, draw_axes(a, xt, yt))
        \o draw_cmds(a, cmds_, 1, g)
        \o Tag("legend", 0, draw_legend(legend_on_, legend_loc_, cmds_))
        \o Tag("title", 0, draw_title(title_, xlabel_))
        \o Tag("ylabel", 0, draw_ylabel(ylabel_, ylabel_cache_, ylabel_cache_valid_))

(***************************************************************************)
(* The retained state: what a render pass draws from.                      *)
(***************************************************************************)
RetainedOf(cmds, b, a, t, xl, yl, on, loc) ==
    [cmds |-> cmds, bounds |-> b, axes |-> a, title |-> t, xlabel |-> xl,
     ylabel |-> yl, legend_on |-> on, legend_loc |-> loc]

Retained ==
    RetainedOf(cmds_, data_bounds_, axes_, title_, xlabel_, ylabel_, legend_on_, legend_loc_)

\* The record of a public call: whether its geometry was malformed, whether
\* it ran a render pass, what the image sink did and how the call returned.
Call(op, malformed, ran, sink, ret) ==
    [op |-> op, malformed |-> malformed, ran |-> ran, sink |-> sink, ret |-> ret]

\* A call that renders nothing and reaches no sink.
Returned(op) == Call(op, FALSE, FALSE, "none", "ok")

\* Whether coordinate vectors are malformed geometry for a command type.
MalformedXY(type, x, y) == Len(x) # Len(y) \/ (type = "Polygon" /\ Len(x) = 0)

(***************************************************************************)
(* Construction & basic settings.                                          *)
(***************************************************************************)
\* Figure::Figure(w, h) and the member initialisers of figure.h.
Figure(w, h) ==
    /\ width_ = w
    /\ height_ = h
    /\ canvas_ = Blank
    /\ cmds_ = <<>>
    /\ axes_ = AxesInit
    /\ title_ = ""
    /\ xlabel_ = ""
    /\ ylabel_ = ""
    /\ dirty_ = TRUE
    /\ legend_loc_ = "northEast"
    /\ legend_on_ = FALSE
    /\ data_bounds_ = BoundsInit
    /\ ylabel_cache_ = EmptyMat
    /\ ylabel_cache_valid_ = FALSE
    /\ last = Returned("Figure")
    /\ clean = RetainedOf(<<>>, BoundsInit, AxesInit, "", "", "", FALSE, "northEast")
    /\ passes = 0

set_xlim(lo, hi) ==
    /\ axes_' = [axes_ EXCEPT !.xmin = lo, !.xmax = hi, !.autoscale = FALSE]
    /\ dirty_' = TRUE
    /\ last' = Returned("set_xlim")
    /\ UNCHANGED <<width_, height_, canvas_, cmds_, title_, xlabel_, ylabel_, legend_loc_,
                   legend_on_, data_bounds_, ylabel_cache_, ylabel_cache_valid_, clean, passes>>

set_ylim(lo, hi) ==
    /\ axes_' = [axes_ EXCEPT !.ymin = lo, !.ymax = hi, !.autoscale = FALSE]
    /\ dirty_' = TRUE
    /\ last' = Returned("set_ylim")
    /\ UNCHANGED <<width_, height_, canvas_, cmds_, title_, xlabel_, ylabel_, legend_loc_,
                   legend_on_, data_bounds_, ylabel_cache_, ylabel_cache_valid_, clean, passes>>

axis_tight ==
    /\ axes_' = [axes_ EXCEPT !.pad_frac = 0]
    /\ dirty_' = TRUE
    /\ last' = Returned("axis_tight")
    /\ UNCHANGED <<width_, height_, canvas_, cmds_, title_, xlabel_, ylabel_, legend_loc_,
                   legend_on_, data_bounds_, ylabel_cache_, ylabel_cache_valid_, clean, passes>>

\* Faulty variant of axis_pad: the argument is stored as given.
axis_pad_unclamped(frac) ==
    /\ axes_' = [axes_ EXCEPT !.pad_frac = frac]
    /\ dirty_' = TRUE
    /\ last' = Returned("axis_pad")
    /\ UNCHANGED <<width_, height_, canvas_, cmds_, title_, xlabel_, ylabel_, legend_loc_,
                   legend_on_, data_bounds_, ylabel_cache_, ylabel_cache_valid_, clean, passes>>

axis_pad(frac) ==
    /\ axes_' = [axes_ EXCEPT !.pad_frac = Max2(0, frac)]
    /\ dirty_' = TRUE
    /\ last' = Returned("axis_pad")
    /\ UNCHANGED <<width_, height_, canvas_, cmds_, title_, xlabel_, ylabel_, legend_loc_,
                   legend_on_, data_bounds_, ylabel_cache_, ylabel_cache_valid_, clean, passes>>

\* Faulty variant of autoscale: switching autoscale on also resets the
\* limits to the unit square.
autoscale_resets(on) ==
    /\ axes_' = IF on
                THEN [axes_ EXCEPT !.autoscale = on, !.xmin = 0, !.xmax = Unit,
                                   !.ymin = 0, !.ymax = Unit]
                ELSE [axes_ EXCEPT !.autoscale = on]
    /\ dirty_' = TRUE
    /\ last' = Returned("autoscale")
    /\ UNCHANGED <<width_, height_, canvas_, cmds_, title_, xlabel_, ylabel_, legend_loc_,
                   legend_on_, data_bounds_, ylabel_cache_, ylabel_cache_valid_, clean, passes>>

autoscale(on) ==
    /\ axes_' = [axes_ EXCEPT !.autoscale = on]
    /\ dirty_' = TRUE
    /\ last' = Returned("autoscale")
    /\ UNCHANGED <<width_, height_, canvas_, cmds_, title_, xlabel_, ylabel_, legend_loc_,
                   legend_on_, data_bounds_, ylabel_cache_, ylabel_cache_valid_, clean, passes>>

equal_scale(on) ==
    /\ axes_' = [axes_ EXCEPT !.equal_scale = on]
    /\ dirty_' = TRUE
    /\ last' = Returned("equal_scale")
    /\ UNCHANGED <<width_, height_, canvas_, cmds_, title_, xlabel_, ylabel_, legend_loc_,
                   legend_on_, data_bounds_, ylabel_cache_, ylabel_cache_valid_, clean, passes>>

grid(on) ==
    /\ axes_' = [axes_ EXCEPT !.grid = on]
    /\ dirty_' = TRUE
    /\ last' = Returned("grid")
    /\ UNCHANGED <<width_, height_, canvas_, cmds_, title_, xlabel_, ylabel_, legend_loc_,
                   legend_on_, data_bounds_, ylabel_cache_, ylabel_cache_valid_, clean, passes>>

\* Faulty variant of title: the figure is not marked dirty.
title_not_dirty(t) ==
    /\ title_' = t
    /\ last' = Returned("title")
    /\ UNCHANGED <<width_, height_, canvas_, cmds_, axes_, xlabel_, ylabel_, dirty_,
                   legend_loc_, legend_on_, data_bounds_, ylabel_cache_,
                   ylabel_cache_valid_, clean, passes>>

title(t) ==
    /\ title_' = t
    /\ dirty_' = TRUE
    /\ last' = Returned("title")
    /\ UNCHANGED <<width_, height_, canvas_, cmds_, axes_, xlabel_, ylabel_, legend_loc_,
                   legend_on_, data_bounds_, ylabel_cache_, ylabel_cache_valid_, clean, passes>>

xlabel(t) ==
    /\ xlabel_' = t
    /\ dirty_' = TRUE
    /\ last' = Returned("xlabel")
    /\ UNCHANGED <<width_, height_, canvas_, cmds_, axes_, title_, ylabel_, legend_loc_,
                   legend_on_, data_bounds_, ylabel_cache_, ylabel_cache_valid_, clean, passes>>

\* Faulty variant of ylabel: the cache flag is left as it is.
ylabel_keeps_cache(t) ==
    /\ ylabel_' = t
    /\ dirty_' = TRUE
    /\ last' = Returned("ylabel")
    /\ UNCHANGED <<width_, height_, canvas_, cmds_, axes_, title_, xlabel_, legend_loc_,
                   legend_on_, data_bounds_, ylabel_cache_, ylabel_cache_valid_, clean,
                   passes>>

ylabel(t) ==
    /\ ylabel_' = t
    /\ ylabel_cache_valid_' = FALSE
    /\ dirty_' = TRUE
    /\ last' = Returned("ylabel")
    /\ UNCHANGED <<width_, height_, canvas_, cmds_, axes_, title_, xlabel_, legend_loc_,
                   legend_on_, data_bounds_, ylabel_cache_, clean, passes>>

legend(on, loc) ==
    /\ legend_on_' = on
    /\ legend_loc_' = loc
    /\ dirty_' = TRUE
    /\ last' = Returned("legend")
    /\ UNCHANGED <<width_, height_, canvas_, cmds_, axes_, title_, xlabel_, ylabel_,
                   data_bounds_, ylabel_cache_, ylabel_cache_valid_, clean, passes>>


(***************************************************************************)
(* Plot primitives.  An append call stores the command, widens the data    *)
(* bounds and marks the figure dirty.                                      *)
(***************************************************************************)
\* Faulty variant of push_back: the command is inserted at the front.
push_front(op, cmd, b) ==
    /\ cmds_' = <<cmd>> \o cmds_
    /\ data_bounds_' = b
    /\ dirty_' = TRUE
    /\ last' = Call(op, MalformedXY(cmd.type, cmd.x, cmd.y), FALSE, "none", "ok")
    /\ UNCHANGED <<width_, height_, canvas_, axes_, title_, xlabel_, ylabel_, legend_loc_,
                   legend_on_, ylabel_cache_, ylabel_cache_valid_, clean, passes>>

\* cmds_.push_back(cmd) with the bounds b the call has computed.
push_back(op, cmd, b) ==
    /\ cmds_' = Append(cmds_, cmd)
    /\ data_bounds_' = b
    /\ dirty_' = TRUE
    /\ last' = Call(op, MalformedXY(cmd.type, cmd.x, cmd.y), FALSE, "none", "ok")
    /\ UNCHANGED <<width_, height_, canvas_, axes_, title_, xlabel_, ylabel_, legend_loc_,
                   legend_on_, ylabel_cache_, ylabel_cache_valid_, clean, passes>>

\* Figure::add_line_command: no check of the two lengths.
add_line_command(x, y, c, thickness, label, g) ==
    push_back("plot",
              PlotCommand("Line", c, label, x, y, <<>>, thickness, DefaultStyle, NoText),
              expand_bounds(data_bounds_, x, y, g))

\* Figure::add_scatter_command: no check of the two lengths.
add_scatter_command(x, y, c, marker_size, label, g) ==
    push_back("scatter",
              PlotCommand("Scatter", c, label, x, y, <<>>, marker_size, DefaultStyle, NoText),
              expand_bounds(data_bounds_, x, y, g))

plot(x, y, c, thickness, label, g) == add_line_command(x, y, c, thickness, label, g)

scatter(x, y, c, marker_size, label, g) == add_scatter_command(x, y, c, marker_size, label, g)

\* Faulty variant of text: the anchor is absorbed into the data bounds.
text_expands(x, y, msg, c, ha, va, label) ==
    push_back("text",
              PlotCommand("Text", c, label, <<>>, <<>>, <<x, y>>, 0, DefaultStyle,
                          [NoText EXCEPT !.text = msg, !.halign = ha, !.valign = va]),
              expand(data_bounds_, x, y))

\* Figure::text: the bounds are left alone.
text(x, y, msg, c, ha, va, label) ==
    push_back("text",
              PlotCommand("Text", c, label, <<>>, <<>>, <<x, y>>, 0, DefaultStyle,
                          [NoText EXCEPT !.text = msg, !.halign = ha, !.valign = va]),
              data_bounds_)

circle(cx, cy, radius, style, label) ==
    push_back("circle",
              PlotCommand("Circle", "blue", label, <<>>, <<>>, <<cx, cy, radius>>, 0,
                          style, NoText),
              expand(expand(data_bounds_, cx - radius, cy - radius),
                     cx + radius, cy + radius))

rect_xywh(x, y, w, h, style, label) ==
    push_back("rect_xywh",
              PlotCommand("RectXYWH", "blue", label, <<>>, <<>>, <<x, y, x + w, y + h>>, 0,
                          style, NoText),
              expand(expand(data_bounds_, x, y), x + w, y + h))

rect_ltrb(x0, y0, x1, y1, style, label) ==
    push_back("rect_ltrb",
              PlotCommand("RectLTRB", "blue", label, <<>>, <<>>, <<x0, y0, x1, y1>>, 0,
                          style, NoText),
              expand(expand(data_bounds_, x0, y0), x1, y1))

\* The bounds take the circle around the centre through the corners.
rotated_rect(cx, cy, w, h, angle_deg, style, label) ==
    LET r == RoundDiv(ISqrt(w * w + h * h), 2)
    IN  push_back("rotated_rect",
                  PlotCommand("RotatedRect", "blue", label, <<>>, <<>>,
                              <<cx, cy, w, h, angle_deg>>, 0, style, NoText),
                  expand(expand(data_bounds_, cx - r, cy - r), cx + r, cy + r))

\* Figure::polygon: the only append call that checks its vectors; a
\* rejected call returns with nothing changed.
polygon(x, y, style, label) ==
    IF Len(x) # Len(y) \/ Len(x) = 0
    THEN /\ last' = Call("polygon", TRUE, FALSE, "none", "ok")
         /\ UNCHANGED <<width_, height_, canvas_, cmds_, axes_, title_, xlabel_, ylabel_,
                        dirty_, legend_loc_, legend_on_, data_bounds_, ylabel_cache_,
                        ylabel_cache_valid_, clean, passes>>
    ELSE push_back("polygon",
                   PlotCommand("Polygon", "blue", label, x, y, <<>>, 0, style, NoText),
                   expand_bounds(data_bounds_, x, y, 0))

\* The bounds take the unrotated box of the ellipse.
ellipse(cx, cy, w, h, angle_deg, style, label) ==
    push_back("ellipse",
              PlotCommand("Ellipse", "blue", label, <<>>, <<>>,
                          <<cx, cy, w, h, angle_deg>>, 0, style, NoText),
              expand(expand(data_bounds_, cx - RoundDiv(w, 2), cy - RoundDiv(h, 2)),
                     cx + RoundDiv(w, 2), cy + RoundDiv(h, 2)))

(***************************************************************************)
(* Rendering & I/O.                                                        *)
(***************************************************************************)
\* The body of Figure::render below its dirty check: one render pass.
render_pass(g) ==
    LET a == resolve_axes(axes_, data_bounds_)
    IN  /\ axes_' = a
        /\ canvas_' = render_canvas(a, g)
        /\ ylabel_cache_' = ylabel_cache_after(ylabel_, ylabel_cache_, ylabel_cache_valid_)
        /\ ylabel_cache_valid_' = ylabel_valid_after(ylabel_, ylabel_cache_valid_)
        /\ dirty_' = FALSE
        /\ passes' = passes + 1
        /\ clean' = RetainedOf(cmds_, data_bounds_, a, title_, xlabel_, ylabel_,
                               legend_on_, legend_loc_)

\* The early return of Figure::render.
no_pass ==
    UNCHANGED <<axes_, canvas_, ylabel_cache_, ylabel_cache_valid_, dirty_, passes, clean>>

\* Figure::render, with the rest of the state it leaves alone.
render_if_dirty(g) ==
    /\ IF dirty_ THEN render_pass(g) ELSE no_pass
    /\ UNCHANGED <<width_, height_, cmds_, title_, xlabel_, ylabel_, legend_loc_,
                   legend_on_, data_bounds_>>

\* Faulty variant of render: the dirty check is missing.
render_unguarded(g) ==
    /\ render_pass(g)
    /\ UNCHANGED <<width_, height_, cmds_, title_, xlabel_, ylabel_, legend_loc_,
                   legend_on_, data_bounds_>>
    /\ last' = Call("render", FALSE, TRUE, "none", "ok")

render(g) ==
    /\ render_if_dirty(g)
    /\ last' = Call("render", FALSE, dirty_, "none", "ok")

\* Figure::show: cv::imshow either shows the canvas or throws, and the
\* exception leaves show through its caller.
show(g, sink) ==
    /\ render_if_dirty(g)
    /\ last' = Call("show", FALSE, dirty_, sink, IF sink = "throw" THEN "throw" ELSE "ok")

\* Faulty variant of save: a write that did not succeed marks the figure
\* dirty again.
save_redirty(g, sink) ==
    /\ IF dirty_
       THEN LET a == resolve_axes(axes_, data_bounds_)
            IN  /\ axes_' = a
                /\ canvas_' = render_canvas(a, g)
                /\ ylabel_cache_' = ylabel_cache_after(ylabel_, ylabel_cache_,
                                                       ylabel_cache_valid_)
                /\ ylabel_cache_valid_' = ylabel_valid_after(ylabel_, ylabel_cache_valid_)
                /\ passes' = passes + 1
                /\ clean' = RetainedOf(cmds_, data_bounds_, a, title_, xlabel_, ylabel_,
                                       legend_on_, legend_loc_)
       ELSE UNCHANGED <<axes_, canvas_, ylabel_cache_, ylabel_cache_valid_, passes, clean>>
    /\ dirty_' = (sink # "ok")
    /\ UNCHANGED <<width_, height_, cmds_, title_, xlabel_, ylabel_, legend_loc_,
                   legend_on_, data_bounds_>>
    /\ last' = Call("save", FALSE, dirty_, sink, IF sink = "throw" THEN "throw" ELSE "ok")

\* Figure::save: cv::imwrite writes the file, returns false or throws; its
\* return value is dropped.
save(g, sink) ==
    /\ render_if_dirty(g)
    /\ last' = Call("save", FALSE, dirty_, sink, IF sink = "throw" THEN "throw" ELSE "ok")


(***************************************************************************)
(* make_ticks applied on its own: tk holds the arguments and the result.   *)
(***************************************************************************)
NoTicks == [lo |-> 0, hi |-> 0, done |-> FALSE, out |-> [locs |-> <<>>, labels |-> <<>>]]

apply_make_ticks ==
    /\ ~tk.done
    /\ tk' = [tk EXCEPT !.done = TRUE, !.out = make_ticks(tk.lo, tk.hi, kTickTarget)]
    /\ UNCHANGED <<figvars, ncalls, threads, probe, pc>>

(***************************************************************************)
(* Instances.  A Figure is its non-static data members; the class has no   *)
(* static member but the constexpr margins and no global.  The variables    *)
(* above are the members of the instance whose thread is running; the      *)
(* instance of the other thread is kept in threads.parked.                 *)
(***************************************************************************)
\* The members of the running instance.
Members ==
    [width_ |-> width_, height_ |-> height_, canvas_ |-> canvas_, cmds_ |-> cmds_,
     axes_ |-> axes_, title_ |-> title_, xlabel_ |-> xlabel_, ylabel_ |-> ylabel_,
     dirty_ |-> dirty_, legend_loc_ |-> legend_loc_, legend_on_ |-> legend_on_,
     data_bounds_ |-> data_bounds_, ylabel_cache_ |-> ylabel_cache_,
     ylabel_cache_valid_ |-> ylabel_cache_valid_,
     last |-> last, clean |-> clean, passes |-> passes]

\* The members of a Figure just constructed: Figure::Figure(w, h).
NewFigure(w, h) ==
    [width_ |-> w, height_ |-> h, canvas_ |-> Blank, cmds_ |-> <<>>,
     axes_ |-> AxesInit, title_ |-> "", xlabel_ |-> "", ylabel_ |-> "",
     dirty_ |-> TRUE, legend_loc_ |-> "northEast", legend_on_ |-> FALSE,
     data_bounds_ |-> BoundsInit, ylabel_cache_ |-> EmptyMat,
     ylabel_cache_valid_ |-> FALSE,
     last |-> Returned("Figure"),
     clean |-> RetainedOf(<<>>, BoundsInit, AxesInit, "", "", "", FALSE, "northEast"),
     passes |-> 0]

\* Faulty variant of Resume: data_bounds_ is one static object that the
\* instances share, so it stays as the other thread left it.
ResumeSharedBounds(m) ==
    /\ width_' = m.width_ /\ height_' = m.height_ /\ canvas_' = m.canvas_
    /\ cmds_' = m.cmds_ /\ axes_' = m.axes_ /\ title_' = m.title_
    /\ xlabel_' = m.xlabel_ /\ ylabel_' = m.ylabel_ /\ dirty_' = m.dirty_
    /\ legend_loc_' = m.legend_loc_ /\ legend_on_' = m.legend_on_
    /\ UNCHANGED data_bounds_
    /\ ylabel_cache_' = m.ylabel_cache_ /\ ylabel_cache_valid_' = m.ylabel_cache_valid_
    /\ last' = m.last /\ clean' = m.clean /\ passes' = m.passes

\* The thread that owns instance m runs next: every member it works on is
\* a member of m.
Resume(m) ==
    /\ width_' = m.width_ /\ height_' = m.height_ /\ canvas_' = m.canvas_
    /\ cmds_' = m.cmds_ /\ axes_' = m.axes_ /\ title_' = m.title_
    /\ xlabel_' = m.xlabel_ /\ ylabel_' = m.ylabel_ /\ dirty_' = m.dirty_
    /\ legend_loc_' = m.legend_loc_ /\ legend_on_' = m.legend_on_
    /\ data_bounds_' = m.data_bounds_
    /\ ylabel_cache_' = m.ylabel_cache_ /\ ylabel_cache_valid_' = m.ylabel_cache_valid_
    /\ last' = m.last /\ clean' = m.clean /\ passes' = m.passes

\* No helper is applied on its own.
NoProbe == [fn |-> "none"]

\* No render() call is in progress on another thread.
Idle == [at |-> "idle", op |-> "none"]

\* A program with one thread and one Figure.
OneThread ==
    [cur |-> 1, phase |-> "single", parked |-> <<>>, log |-> <<<<>>, <<>>>>,
     alone |-> 0, pending |-> <<>>, result |-> <<>>]

(***************************************************************************)
(* The inputs of the public calls.                                         *)
(***************************************************************************)
U == Unit

\* The values an out-of-range read may yield, when some retained vector
\* pair has a y shorter than its x; one value otherwise (nothing reads it).
GarbageVals == {0, 9 * U}
Malformed(cmds) == \E i \in 1..Len(cmds) : Len(cmds[i].x) > Len(cmds[i].y)
Garbage(cmds) == IF Malformed(cmds) THEN GarbageVals ELSE {0}
GarbageFor(x, y) == IF Len(x) > Len(y) THEN GarbageVals ELSE {0}

TestStyle ==
    [line_color |-> "black", thickness |-> 200, fill_color |-> "red", fill_alpha |-> 50]

\* Coordinate vector pairs: well formed, and with y shorter or longer than x.
GoodXY == {<<<<0, 2 * U>>, <<U, -U>>>>, <<<<3 * U>>, <<2 * U>>>>}
BadXY == {<<<<0, 2 * U>>, <<U>>>>, <<<<3 * U>>, <<2 * U, U>>>>}
EmptyXY == <<<<>>, <<>>>>

\* One public call of the budget of MaxCalls.
Step(A) ==
    /\ ncalls < MaxCalls
    /\ ncalls' = ncalls + 1
    /\ A
    /\ UNCHANGED <<tk, threads, probe, pc>>

(***************************************************************************)
(* Spec: one Figure of the default size under every public operation.      *)
(***************************************************************************)
Init ==
    /\ Figure(640, 480)
    /\ ncalls = 0
    /\ tk = NoTicks
    /\ threads = OneThread
    /\ probe = NoProbe
    /\ pc = Idle

Next ==
    \/ Step(set_xlim(2 * U, 4 * U))
    \/ Step(set_ylim(-U, U))
    \/ Step(axis_tight)
    \/ \E frac \in {-(U \div 10), U \div 10} : Step(axis_pad(frac))
    \/ \E on \in BOOLEAN : Step(autoscale(on))
    \/ \E on \in BOOLEAN : Step(equal_scale(on))
    \/ \E on \in BOOLEAN : Step(grid(on))
    \/ Step(title("T"))
    \/ Step(xlabel("X"))
    \/ Step(ylabel("Y"))
    \/ \E on \in BOOLEAN : Step(legend(on, IF on THEN "northWest" ELSE "northEast"))
    \/ \E xy \in GoodXY \cup BadXY : \E g \in GarbageFor(xy[1], xy[2]) :
           Step(plot(xy[1], xy[2], "blue", 200, "a", g))
    \/ \E xy \in GoodXY \cup BadXY : \E g \in GarbageFor(xy[1], xy[2]) :
           Step(scatter(xy[1], xy[2], "red", 600, "", g))
    \/ Step(text(U, U, "peak", "black", "Left", "Baseline", ""))
    \/ Step(circle(2 * U, U, U \div 2, TestStyle, "c"))
    \/ Step(rect_xywh(2 * U, U \div 2, U, 2 * U, TestStyle, ""))
    \/ Step(rect_ltrb(4 * U, U, 5 * U, 2 * U, TestStyle, ""))
    \/ Step(rotated_rect(6 * U, U, (6 * U) \div 10, (8 * U) \div 10, 30, TestStyle, ""))
    \/ \E xy \in GoodXY \cup BadXY \cup {EmptyXY} : Step(polygon(xy[1], xy[2], TestStyle, ""))
    \/ Step(ellipse(4 * U, 2 * U, 2 * U, U, 45, TestStyle, ""))
    \/ \E g \in Garbage(cmds_) : Step(render(g))
    \/ \E g \in Garbage(cmds_) : \E sink \in {"ok", "throw"} : Step(show(g, sink))
    \/ \E g \in Garbage(cmds_) : \E sink \in {"ok", "false", "throw"} : Step(save(g, sink))

Spec == Init /\ [][Next]_vars


(***************************************************************************)
(* SpecAxes: axis resolution.  Figures of several sizes under the limit    *)
(* and policy calls, well-formed point data and render.                    *)
(***************************************************************************)
\* Canvas sizes: 720 x 500 and 560 x 380 plot rectangles, and a square one.
Sizes == {<<800, 600>>, <<640, 480>>, <<680, 700>>}

\* Explicit limits: lo < hi, lo = hi (at and away from zero) and lo > hi.
Limits == {<<2 * U, 4 * U>>, <<3 * U, 3 * U>>, <<0, 0>>, <<4 * U, U>>}

PointXY == {<<<<0, 2 * U>>, <<U, -U>>>>, <<<<3 * U>>, <<2 * U>>>>}
ScatterXY == {<<<<3 * U>>, <<2 * U>>>>, <<<<-U, 5 * U>>, <<0, 0>>>>}

AxesStep(A) ==
    /\ ncalls < MaxAxesCalls
    /\ ncalls' = ncalls + 1
    /\ A
    /\ UNCHANGED <<tk, threads, probe, pc>>

InitAxes ==
    /\ \E sz \in Sizes : Figure(sz[1], sz[2])
    /\ ncalls = 0
    /\ tk = NoTicks
    /\ threads = OneThread
    /\ probe = NoProbe
    /\ pc = Idle

NextAxes ==
    \/ \E l \in Limits : AxesStep(set_xlim(l[1], l[2]))
    \/ \E l \in {<<-U, U>>, <<U, U>>} : AxesStep(set_ylim(l[1], l[2]))
    \/ AxesStep(axis_tight)
    \/ \E frac \in {-(U \div 10), U \div 10} : AxesStep(axis_pad(frac))
    \/ AxesStep(autoscale(TRUE))
    \/ AxesStep(equal_scale(TRUE))
    \/ \E xy \in PointXY : AxesStep(plot(xy[1], xy[2], "blue", 200, "", 0))
    \/ \E xy \in ScatterXY : AxesStep(scatter(xy[1], xy[2], "red", 600, "", 0))
    \/ AxesStep(render(0))

SpecAxes == InitAxes /\ [][NextAxes]_vars

(***************************************************************************)
(* SpecLegend: labelled and unlabelled commands of the three swatch kinds, *)
(* the legend switch and render.                                           *)
(***************************************************************************)
LegendStep(A) ==
    /\ ncalls < MaxLegendCalls
    /\ ncalls' = ncalls + 1
    /\ A
    /\ UNCHANGED <<tk, threads, probe, pc>>

NextLegend ==
    \/ \E label \in {"a", "", "b"} :
           LegendStep(plot(<<0, 2 * U>>, <<U, -U>>, "blue", 200, label, 0))
    \/ LegendStep(scatter(<<3 * U>>, <<2 * U>>, "red", 600, "a", 0))
    \/ LegendStep(rect_ltrb(4 * U, U, 5 * U, 2 * U, TestStyle, "bb"))
    \/ \E on \in BOOLEAN : LegendStep(legend(on, IF on THEN "southWest" ELSE "northEast"))
    \/ LegendStep(render(0))

SpecLegend == Init /\ [][NextLegend]_vars

(***************************************************************************)
(* SpecTicks: make_ticks on its own, over intervals of several decades.    *)
(***************************************************************************)
TickEnds ==
    {-37 * (U \div 10), -U, -(U \div 20), 0, U \div 1000, 3 * (U \div 10), U,
     11 * (U \div 10), 25 * (U \div 10), 7 * U, 10 * U, 123 * U}

InitTicks ==
    /\ Figure(640, 480)
    /\ ncalls = 0
    /\ \E lo \in TickEnds : \E hi \in TickEnds :
           tk = [NoTicks EXCEPT !.lo = lo, !.hi = hi]
    /\ threads = OneThread
    /\ probe = NoProbe
    /\ pc = Idle

NextTicks == apply_make_ticks

SpecTicks == InitTicks /\ [][NextTicks]_vars


(***************************************************************************)
(* SpecTwo: two threads, each with a Figure of its own, whose public calls *)
(* interleave in any order; afterwards the calls one thread made are run   *)
(* again, in the same order, by a program that has that thread alone.      *)
(***************************************************************************)
\* The sizes of the two figures.
SizeOf(t) == IF t = 1 THEN <<640, 480>> ELSE <<800, 600>>

\* The public calls a thread chooses from, by number.
TwoMenu == 1..7

Do(i) ==
    \/ i = 1 /\ plot(<<0, 2 * U>>, <<U, -U>>, "blue", 200, "a", 0)
    \/ i = 2 /\ set_xlim(2 * U, 4 * U)
    \/ i = 3 /\ ylabel("Y")
    \/ i = 4 /\ circle(2 * U, U, U \div 2, TestStyle, "c")
    \/ i = 5 /\ legend(TRUE, "northWest")
    \/ i = 6 /\ render(0)
    \/ i = 7 /\ save(0, "false")

InitTwo ==
    /\ Figure(SizeOf(1)[1], SizeOf(1)[2])
    /\ ncalls = 0
    /\ tk = NoTicks
    /\ probe = NoProbe
    /\ pc = Idle
    /\ threads = [OneThread EXCEPT !.phase = "run",
                                   !.parked = NewFigure(SizeOf(2)[1], SizeOf(2)[2])]

\* The running thread makes one public call on its Figure.
ThreadCall ==
    /\ threads.phase = "run"
    /\ ncalls < MaxTwoCalls
    /\ ncalls' = ncalls + 1
    /\ \E i \in TwoMenu :
           /\ Do(i)
           /\ threads' = [threads EXCEPT !.log[threads.cur] = Append(@, i)]
    /\ UNCHANGED <<tk, probe, pc>>

\* The scheduler runs the other thread.
Switch ==
    /\ threads.phase = "run"
    /\ Resume(threads.parked)
    /\ threads' = [threads EXCEPT !.cur = 3 - @, !.parked = Members]
    /\ UNCHANGED <<ncalls, tk, probe, pc>>

\* The threads have finished.  The Figure of thread t is kept as the
\* result, and a program in which t is the only thread starts: it
\* constructs t's Figure and has t's calls to make.
RunAlone ==
    /\ threads.phase = "run"
    /\ \E t \in {1, 2} :
           /\ threads' = [threads EXCEPT
                              !.phase = "alone", !.alone = t, !.cur = t,
                              !.pending = threads.log[t], !.parked = <<>>,
                              !.result = IF t = threads.cur THEN Members
                                         ELSE threads.parked]
           /\ LET m == NewFigure(SizeOf(t)[1], SizeOf(t)[2])
              IN  /\ width_' = m.width_ /\ height_' = m.height_ /\ canvas_' = m.canvas_
                  /\ cmds_' = m.cmds_ /\ axes_' = m.axes_ /\ title_' = m.title_
                  /\ xlabel_' = m.xlabel_ /\ ylabel_' = m.ylabel_ /\ dirty_' = m.dirty_
                  /\ legend_loc_' = m.legend_loc_ /\ legend_on_' = m.legend_on_
                  /\ data_bounds_' = m.data_bounds_
                  /\ ylabel_cache_' = m.ylabel_cache_
                  /\ ylabel_cache_valid_' = m.ylabel_cache_valid_
                  /\ last' = m.last /\ clean' = m.clean /\ passes' = m.passes
    /\ UNCHANGED <<ncalls, tk, probe, pc>>

\* The thread that runs alone makes its next call.
AloneCall ==
    /\ threads.phase = "alone"
    /\ threads.pending # <<>>
    /\ Do(Head(threads.pending))
    /\ threads' = [threads EXCEPT !.pending = Tail(@)]
    /\ UNCHANGED <<ncalls, tk, probe, pc>>

NextTwo ==
    \/ ThreadCall
    \/ Switch
    \/ RunAlone
    \/ AloneCall

SpecTwo == InitTwo /\ [][NextTwo]_vars


(***************************************************************************)
(* SpecDraw: the decorations of a figure (grid, title, labels, legend),    *)
(* two kinds of command and render.                                        *)
(***************************************************************************)
DrawStep(A) ==
    /\ ncalls < MaxDrawCalls
    /\ ncalls' = ncalls + 1
    /\ A
    /\ UNCHANGED <<tk, threads, probe, pc>>

NextDraw ==
    \/ DrawStep(grid(TRUE))
    \/ DrawStep(title("T"))
    \/ DrawStep(xlabel("X"))
    \/ DrawStep(ylabel("Y"))
    \/ DrawStep(legend(TRUE, "northWest"))
    \/ DrawStep(plot(<<0, 2 * U>>, <<U, -U>>, "blue", 200, "a", 0))
    \/ DrawStep(circle(2 * U, U, U \div 2, TestStyle, ""))
    \/ DrawStep(render(0))

SpecDraw == Init /\ [][NextDraw]_vars


(***************************************************************************)
(* SpecShapes: the six filled shape kinds under styles whose fill_alpha    *)
(* and thickness lie below, at, between and above 0 and 1, and render.     *)
(***************************************************************************)
\* Styles as <<fill_alpha, thickness>> in hundredths.
ShapeStyles ==
    {[line_color |-> "black", thickness |-> st[2], fill_color |-> "red", fill_alpha |-> st[1]] :
        st \in {<<50, 200>>, <<100, 0>>, <<0, 100>>, <<150, 50>>, <<-50, -100>>}}

ShapeStep(A) ==
    /\ ncalls < MaxShapeCalls
    /\ ncalls' = ncalls + 1
    /\ A
    /\ UNCHANGED <<tk, threads, probe, pc>>

NextShapes ==
    \/ \E st \in ShapeStyles : ShapeStep(circle(2 * U, U, U \div 2, st, ""))
    \/ \E st \in ShapeStyles : ShapeStep(rect_xywh(2 * U, U \div 2, U, 2 * U, st, ""))
    \/ \E st \in ShapeStyles : ShapeStep(rect_ltrb(4 * U, U, 5 * U, 2 * U, st, ""))
    \/ \E st \in ShapeStyles :
           ShapeStep(rotated_rect(6 * U, U, (6 * U) \div 10, (8 * U) \div 10, 30, st, ""))
    \/ \E st \in ShapeStyles :
           ShapeStep(polygon(<<0, 2 * U, U>>, <<0, 0, 2 * U>>, st, ""))
    \/ \E st \in ShapeStyles : ShapeStep(ellipse(4 * U, 2 * U, 2 * U, U, 45, st, ""))
    \/ ShapeStep(render(0))

SpecShapes == Init /\ [][NextShapes]_vars


(***************************************************************************)
(* SpecLabel: the y label set, set again to the same and to another text   *)
(* and cleared, another mutator, and render.                               *)
(***************************************************************************)
LabelStep(A) ==
    /\ ncalls < MaxLabelCalls
    /\ ncalls' = ncalls + 1
    /\ A
    /\ UNCHANGED <<tk, threads, probe, pc>>

NextLabel ==
    \/ \E t \in {"Y", "Z", ""} : LabelStep(ylabel(t))
    \/ LabelStep(title("T"))
    \/ LabelStep(grid(TRUE))
    \/ LabelStep(render(0))

SpecLabel == Init /\ [][NextLabel]_vars


(***************************************************************************)
(* SpecBounds: append calls of every kind with well-formed arguments, the  *)
(* rotated kinds at several angles.                                        *)
(***************************************************************************)
BoundsStep(A) ==
    /\ ncalls < MaxBoundsCalls
    /\ ncalls' = ncalls + 1
    /\ A
    /\ UNCHANGED <<tk, threads, probe, pc>>

\* Rotation angles in degrees.
Angles == {0, 30, 45, 90}

NextBounds ==
    \/ \E xy \in GoodXY : BoundsStep(plot(xy[1], xy[2], "blue", 200, "", 0))
    \/ BoundsStep(scatter(<<-U, 5 * U>>, <<0, 3 * U>>, "red", 600, "", 0))
    \/ BoundsStep(text(7 * U, 7 * U, "peak", "black", "Left", "Baseline", ""))
    \/ BoundsStep(circle(2 * U, U, U \div 2, TestStyle, ""))
    \/ BoundsStep(rect_xywh(2 * U, U \div 2, -U, 2 * U, TestStyle, ""))
    \/ BoundsStep(rect_ltrb(4 * U, U, 5 * U, 2 * U, TestStyle, ""))
    \/ \E deg \in Angles :
           BoundsStep(rotated_rect(6 * U, U, (6 * U) \div 10, (8 * U) \div 10, deg,
                                   TestStyle, ""))
    \/ BoundsStep(polygon(<<0, 2 * U, U>>, <<0, 0, -2 * U>>, TestStyle, ""))
    \/ \E deg \in Angles : BoundsStep(ellipse(4 * U, 2 * U, 2 * U, U, deg, TestStyle, ""))

SpecBounds == Init /\ [][NextBounds]_vars


(***************************************************************************)
(* SpecExpand: Bounds::expand applied to a fresh Bounds, point after       *)
(* point.  probe holds the box, the box before the last call and the       *)
(* points absorbed so far.                                                 *)
(***************************************************************************)
MaxExpands == 3

\* Finite coordinates on both sides of zero.
ExpandXs == {-U, 0, 2 * U}
ExpandYs == {-3 * U, U}

InitExpand ==
    /\ Figure(640, 480)
    /\ ncalls = 0
    /\ tk = NoTicks
    /\ threads = OneThread
    /\ probe = [fn |-> "expand", b |-> BoundsInit, was |-> BoundsInit, pts |-> <<>>]
    /\ pc = Idle

apply_expand(x, y) ==
    /\ probe.fn = "expand"
    /\ Len(probe.pts) < MaxExpands
    /\ probe' = [probe EXCEPT !.b = expand(probe.b, x, y), !.was = probe.b,
                              !.pts = Append(@, <<x, y>>)]
    /\ UNCHANGED <<figvars, ncalls, tk, threads, pc>>

NextExpand == \E x \in ExpandXs : \E y \in ExpandYs : apply_expand(x, y)

SpecExpand == InitExpand /\ [][NextExpand]_vars


(***************************************************************************)
(* SpecSpan: fix_ranges applied on its own to axis limits of equal and of  *)
(* different ends, at zero, below one and above one in magnitude.          *)
(***************************************************************************)
SpanEnds == {-2 * U, -(U \div 2), 0, U \div 2, U, 3 * U}

InitSpan ==
    /\ Figure(640, 480)
    /\ ncalls = 0
    /\ tk = NoTicks
    /\ threads = OneThread
    /\ \E xlo \in SpanEnds : \E xhi \in SpanEnds :
       \E y \in {<<0, U>>, <<U \div 2, U \div 2>>, <<-3 * U, -3 * U>>} :
           probe = [fn |-> "fix_ranges", done |-> FALSE,
                    a |-> [AxesInit EXCEPT !.xmin = xlo, !.xmax = xhi,
                                           !.ymin = y[1], !.ymax = y[2]],
                    out |-> AxesInit]
    /\ pc = Idle

apply_fix_ranges ==
    /\ probe.fn = "fix_ranges"
    /\ ~probe.done
    /\ probe' = [probe EXCEPT !.done = TRUE, !.out = fix_ranges(probe.a)]
    /\ UNCHANGED <<figvars, ncalls, tk, threads, pc>>

NextSpan == apply_fix_ranges

SpecSpan == InitSpan /\ [][NextSpan]_vars


(***************************************************************************)
(* SpecAnchor: legend_anchor applied on its own, for boxes narrower than,  *)
(* as wide as and wider than the plot rectangle, under the location that a *)
(* legend() call has set.                                                  *)
(***************************************************************************)
MaxAnchorCalls == 1

\* The nine keywords of the documentation and a string that is none of them.
LegendLocs ==
    {"northWest", "north", "northEast", "west", "center", "east",
     "southWest", "south", "southEast", "upperLeft"}

AnchorStep(A) ==
    /\ ncalls < MaxAnchorCalls
    /\ ncalls' = ncalls + 1
    /\ A
    /\ UNCHANGED <<tk, threads, probe, pc>>

InitAnchor ==
    /\ \E sz \in {<<640, 480>>, <<800, 600>>} : Figure(sz[1], sz[2])
    /\ ncalls = 0
    /\ tk = NoTicks
    /\ threads = OneThread
    /\ \E boxW \in {1, 101, 560, 561} : \E boxH \in {1, 100, 380, 381} :
           probe = [fn |-> "legend_anchor", done |-> FALSE, loc |-> "",
                    boxW |-> boxW, boxH |-> boxH, out |-> <<0, 0>>]
    /\ pc = Idle

apply_legend_anchor ==
    /\ probe.fn = "legend_anchor"
    /\ ~probe.done
    /\ probe' = [probe EXCEPT !.done = TRUE, !.loc = legend_loc_,
                              !.out = legend_anchor(legend_loc_, probe.boxW, probe.boxH)]
    /\ UNCHANGED <<figvars, ncalls, tk, threads, pc>>

NextAnchor ==
    \/ \E loc \in LegendLocs : AnchorStep(legend(TRUE, loc))
    \/ apply_legend_anchor

SpecAnchor == InitAnchor /\ [][NextAnchor]_vars


(***************************************************************************)
(* SpecRace: two threads and one Figure, with no lock between them.  One   *)
(* thread calls render(), show() and save(); the other appends and sets    *)
(* the title.  A call of the second thread is one step; the render pass of *)
(* the first is cut where the second can be seen to have run: after the    *)
(* dirty check, after the axes are drawn, after the loop over cmds_, and   *)
(* at dirty_ = false.  The steps interleave in every order: these are the  *)
(* outcomes of the unsynchronised accesses in which each access reads the  *)
(* value last written.                                                     *)
(***************************************************************************)
MaxRaceCalls == 3

\* A call of the appending thread, at any place of the rendering thread.
RaceStep(A) ==
    /\ ncalls < MaxRaceCalls
    /\ ncalls' = ncalls + 1
    /\ A
    /\ UNCHANGED <<tk, threads, probe, pc>>

\* Faulty variant of dirty_check: a pass is run whether dirty_ is set or not.
dirty_check_skipped == TRUE

\* if (!dirty_) return;  and  if (dirty_) render();
dirty_check == dirty_

\* render(), show(name) or save(file) is called: a clean figure returns at
\* once (through the sink, for show and save), a dirty one starts a pass.
race_enter(op) ==
    /\ pc.at = "idle"
    /\ ncalls < MaxRaceCalls
    /\ ncalls' = ncalls + 1
    /\ IF dirty_check
       THEN /\ pc' = [at |-> "axes", op |-> op]
            /\ UNCHANGED figvars
       ELSE /\ last' = Call(op, FALSE, FALSE, IF op = "render" THEN "none" ELSE "ok", "ok")
            /\ UNCHANGED <<pc, width_, height_, canvas_, cmds_, axes_, title_, xlabel_,
                           ylabel_, dirty_, legend_loc_, legend_on_, data_bounds_,
                           ylabel_cache_, ylabel_cache_valid_, clean, passes>>
    /\ UNCHANGED <<tk, threads, probe>>

\* Steps 1 to 5 of the pass: the axes are resolved, the canvas is cleared,
\* grid and axes are drawn.
race_axes ==
    /\ pc.at = "axes"
    /\ LET a == resolve_axes(axes_, data_bounds_)
           xt == make_ticks(a.xmin, a.xmax, kTickTarget)
           yt == make_ticks(a.ymin, a.ymax, kTickTarget)
       IN  /\ axes_' = a
           /\ canvas_' = Blank \o Tag("grid", 0, draw_grid(a, xt, yt))
                               \o Tag("axes", 0, draw_axes(a, xt, yt))
    /\ pc' = [pc EXCEPT !.at = "cmds"]
    /\ UNCHANGED <<width_, height_, cmds_, title_, xlabel_, ylabel_, dirty_, legend_loc_,
                   legend_on_, data_bounds_, ylabel_cache_, ylabel_cache_valid_, last,
                   clean, passes, ncalls, tk, threads, probe>>

\* Step 6: the loop over the commands that cmds_ holds when it runs.
race_cmds ==
    /\ pc.at = "cmds"
    /\ canvas_' = canvas_ \o draw_cmds(axes_, cmds_, 1, 0)
    /\ pc' = [pc EXCEPT !.at = "tail"]
    /\ UNCHANGED <<width_, height_, cmds_, axes_, title_, xlabel_, ylabel_, dirty_,
                   legend_loc_, legend_on_, data_bounds_, ylabel_cache_,
                   ylabel_cache_valid_, last, clean, passes, ncalls, tk, threads, probe>>

\* Steps 7 and 8, dirty_ = false, and the return (through the sink).
race_tail ==
    /\ pc.at = "tail"
    /\ canvas_' = canvas_
                    \o Tag("legend", 0, draw_legend(legend_on_, legend_loc_, cmds_))
                    \o Tag("title", 0, draw_title(title_, xlabel_))
                    \o Tag("ylabel", 0, draw_ylabel(ylabel_, ylabel_cache_, ylabel_cache_valid_))
    /\ ylabel_cache_' = ylabel_cache_after(ylabel_, ylabel_cache_, ylabel_cache_valid_)
    /\ ylabel_cache_valid_' = ylabel_valid_after(ylabel_, ylabel_cache_valid_)
    /\ dirty_' = FALSE
    /\ passes' = passes + 1
    /\ clean' = Retained
    /\ last' = Call(pc.op, FALSE, TRUE, IF pc.op = "render" THEN "none" ELSE "ok", "ok")
    /\ pc' = Idle
    /\ UNCHANGED <<width_, height_, cmds_, axes_, title_, xlabel_, ylabel_, legend_loc_,
                   legend_on_, data_bounds_, ncalls, tk, threads, probe>>

NextRace ==
    \/ \E op \in {"render", "show", "save"} : race_enter(op)
    \/ race_axes
    \/ race_cmds
    \/ race_tail
    \/ RaceStep(plot(<<0, 2 * U>>, <<U, -U>>, "blue", 200, "a", 0))
    \/ RaceStep(scatter(<<3 * U>>, <<2 * U>>, "red", 600, "", 0))
    \/ RaceStep(title("T"))
    \/ RaceStep(legend(TRUE, "northEast"))

SpecRace == Init /\ [][NextRace]_vars


(***************************************************************************)
(* Properties.                                                             *)
(***************************************************************************)

\* C1: dirty_ is false only if a render pass has run and nothing retained
\* (commands, data bounds, axis limits and policy flags, title and labels,
\* legend switch and location) has changed since the end of the last pass;
\* a Figure that has not been rendered is dirty.
C1_DirtyTracksRetained == ~dirty_ => (passes > 0 /\ clean = Retained)

\* A clean figure that holds a command, after a pass and further calls.
C1_Witness == ~dirty_ /\ passes > 0 /\ Len(cmds_) > 0 /\ ncalls >= 3

\* C2: a render() call made while dirty_ is false changes neither the
\* canvas, the axis rectangle, the y-label cache nor dirty_.
C2_CleanRenderIsNoOp ==
    [][(ncalls' # ncalls /\ last'.op = "render" /\ ~dirty_)
          => UNCHANGED <<canvas_, axes_, ylabel_cache_, ylabel_cache_valid_, dirty_>>]_vars

\* render() has returned without a pass, after a first pass under explicit
\* limits with padding.
C2_Witness ==
    /\ last.op = "render" /\ ~last.ran /\ passes > 0
    /\ ~axes_.autoscale /\ axes_.pad_frac > 0

\* C3 (as claimed): after the resolution steps of a render pass both spans
\* of the axis rectangle are strictly positive, whatever limits were set.
C3_SpansPositive ==
    last.ran => (axes_.xmax > axes_.xmin /\ axes_.ymax > axes_.ymin)

\* C4 (as claimed): after a pass with equal_scale the pixel length of one
\* data unit is the same on both axes, within a pixel of rounding.
PixelsPerUnitX == RoundDiv(plot_width * Unit, axes_.xmax - axes_.xmin)
PixelsPerUnitY == RoundDiv(plot_height * Unit, axes_.ymax - axes_.ymin)

C4_EqualPixelsPerUnit ==
    (last.ran /\ axes_.equal_scale) => Abs(PixelsPerUnitX - PixelsPerUnitY) <= 1

\* C5: after a pass with autoscale every point added through plot or
\* scatter maps to a pixel of the plot rectangle, within one pixel.
InPlotRect(p) ==
    /\ kMarginLeft - 1 <= p[1] /\ p[1] <= width_ - kMarginRight + 1
    /\ kMarginTop - 1 <= p[2] /\ p[2] <= height_ - kMarginBottom + 1

C5_PointsInPlotRect ==
    (last.ran /\ axes_.autoscale) =>
        \A i \in 1..Len(cmds_) :
            cmds_[i].type \in {"Line", "Scatter"} =>
                \A j \in 1..Len(cmds_[i].x) :
                    InPlotRect(data_to_pixel(axes_, cmds_[i].x[j], cmds_[i].y[j]))

\* A pass with autoscale, padding and equal scale over two point commands.
C5_Witness ==
    /\ last.ran /\ axes_.autoscale /\ axes_.equal_scale /\ axes_.pad_frac > 0
    /\ Len(cmds_) = 2

\* C6: a pass over a figure with no command, with autoscale and without
\* equal scale, resolves the padded unit square: each axis is
\* [-pad_frac, 1 + pad_frac], so no limit is infinite, and the call returns
\* normally.
C6_EmptyFigureUnitSquare ==
    (last.ran /\ axes_.autoscale /\ ~axes_.equal_scale /\ Len(cmds_) = 0) =>
        /\ axes_.xmin = -axes_.pad_frac /\ axes_.xmax = Unit + axes_.pad_frac
        /\ axes_.ymin = -axes_.pad_frac /\ axes_.ymax = Unit + axes_.pad_frac
        /\ last.ret = "ok"

\* Such a pass, run after explicit limits had been set and autoscale
\* switched back on.
C6_Witness ==
    /\ last.ran /\ axes_.autoscale /\ ~axes_.equal_scale /\ Len(cmds_) = 0
    /\ axes_.pad_frac > 0 /\ ncalls >= 3

\* C7: for lo < hi every tick location of make_ticks(lo, hi) lies in
\* [lo, hi], the locations ascend strictly, and there is one label per
\* location.
C7_TicksClipped ==
    (tk.done /\ tk.lo < tk.hi) =>
        LET locs == tk.out.locs
        IN  /\ \A i \in 1..Len(locs) : Sub * tk.lo <= locs[i] /\ locs[i] <= Sub * tk.hi
            /\ \A i \in 1..(Len(locs) - 1) : locs[i] < locs[i + 1]
            /\ Len(tk.out.labels) = Len(locs)

\* An interval whose ends are not on the tick grid: the snapped grid has a
\* multiple of the step on either side of it, and ticks were emitted.
C7_Witness ==
    /\ tk.done /\ tk.lo = -(U \div 20) /\ tk.hi = 11 * (U \div 10)
    /\ Len(tk.out.locs) >= 2

\* C8: the legend of a pass has one entry per retained command with a
\* non-empty label, in insertion order, duplicates kept; with the legend
\* off or no labelled command nothing of the legend is drawn.
LegendOps == SelectSeq(canvas_, LAMBDA o : o.step = "legend")
LegendTexts ==
    LET t == SelectSeq(LegendOps, LAMBDA o : o.op = "putText")
    IN  [i \in 1..Len(t) |-> t[i].s.text]
LabelsInOrder ==
    LET c == SelectSeq(cmds_, LAMBDA c : c.label # "")
    IN  [i \in 1..Len(c) |-> c[i].label]

C8_LegendEntries ==
    last.ran =>
        IF legend_on_ /\ LabelsInOrder # <<>>
        THEN /\ LegendTexts = LabelsInOrder
             /\ Len(LegendOps) = 2 + 2 * Len(LabelsInOrder)
        ELSE LegendOps = <<>>

\* The scenario of the labels "a", "", "b".
C8_Witness ==
    /\ last.ran /\ legend_on_ /\ Len(cmds_) = 3
    /\ cmds_[1].label = "a" /\ cmds_[2].label = "" /\ cmds_[3].label = "b"
    /\ LegendTexts = <<"a", "b">>

\* C9 (as claimed): an append call with malformed geometry appends nothing
\* and leaves the command list, the data bounds and dirty_ as they were.
C9_MalformedIgnored ==
    [][(ncalls' # ncalls /\ last'.malformed)
          => (cmds_' = cmds_ /\ data_bounds_' = data_bounds_ /\ dirty_' = dirty_)]_vars

\* C10 (as claimed): a show() or save() call whose image sink failed
\* returns to its caller as a failure.
C10_SinkFailurePropagates ==
    (last.op \in {"show", "save"} /\ last.sink # "ok") => last.ret = "throw"

\* The policy flags of the axes.
PolicyOf(a) == <<a.autoscale, a.equal_scale, a.pad_frac, a.grid>>

\* C11: show() and save() leave the command list, the data bounds, the
\* policy flags, the labels and the legend settings as they were, and
\* dirty_ is false when they return, whatever the image sink did.
C11_SinkCallsKeepRetained ==
    [][(ncalls' # ncalls /\ last'.op \in {"show", "save"}) =>
          /\ cmds_' = cmds_ /\ data_bounds_' = data_bounds_
          /\ PolicyOf(axes_') = PolicyOf(axes_)
          /\ title_' = title_ /\ xlabel_' = xlabel_ /\ ylabel_' = ylabel_
          /\ legend_on_' = legend_on_ /\ legend_loc_' = legend_loc_
          /\ ~dirty_']_vars

\* save() has returned after a write that failed, over a figure that holds
\* a command and was dirty at the call.
C11_Witness ==
    /\ last.op = "save" /\ last.sink = "false" /\ last.ran
    /\ Len(cmds_) > 0 /\ ~dirty_

\* The four limits of the axes.
LimitsOf(a) == <<a.xmin, a.xmax, a.ymin, a.ymax>>

\* C12: the limits change only in a render pass and in set_xlim / set_ylim:
\* every other call leaves all four alone, set_xlim leaves ymin and ymax
\* alone, set_ylim leaves xmin and xmax alone, and both switch autoscale
\* off.
C12_LimitsChangeOnlyByRenderAndSetLim ==
    [][ncalls' # ncalls =>
          /\ (last'.op \notin {"set_xlim", "set_ylim"} /\ ~last'.ran)
                 => LimitsOf(axes_') = LimitsOf(axes_)
          /\ last'.op = "set_xlim"
                 => /\ axes_'.ymin = axes_.ymin /\ axes_'.ymax = axes_.ymax
                    /\ ~axes_'.autoscale
          /\ last'.op = "set_ylim"
                 => /\ axes_'.xmin = axes_.xmin /\ axes_'.xmax = axes_.xmax
                    /\ ~axes_'.autoscale]_vars

\* set_xlim has been called on a rendered figure: the x limits are the
\* arguments and the y limits those the pass resolved; autoscale is off.
C12_Witness ==
    /\ last.op = "set_xlim" /\ passes > 0 /\ ~axes_.autoscale
    /\ axes_.xmin = 2 * U /\ axes_.xmax = 4 * U
    /\ axes_.ymin = -((5 * U) \div 100) /\ axes_.ymax = U + (5 * U) \div 100

\* The calls that append a command.
AppendOps ==
    {"plot", "scatter", "text", "circle", "rect_xywh", "rect_ltrb", "rotated_rect",
     "polygon", "ellipse"}

\* C13: the command list only grows at its end: the list before a call is
\* a prefix of the list after it, an append call with well-formed
\* arguments adds exactly one command, and render(), show() and save()
\* leave the list and its commands as they were.
C13_CommandsAppendOnly ==
    [][ncalls' # ncalls =>
          /\ Len(cmds_') >= Len(cmds_)
          /\ SubSeq(cmds_', 1, Len(cmds_)) = cmds_
          /\ (last'.op \in AppendOps /\ ~last'.malformed)
                 => Len(cmds_') = Len(cmds_) + 1
          /\ last'.op \in {"render", "show", "save"} => cmds_' = cmds_]_vars

\* Two different commands are retained and a third call has rendered them.
C13_Witness ==
    /\ Len(cmds_) = 2 /\ cmds_[1].type # cmds_[2].type
    /\ last.op \in {"render", "show", "save"} /\ last.ran

StepRank(step) ==
    CASE step = "clear" -> 1
      [] step = "grid" -> 2
      [] step = "axes" -> 3
      [] step = "cmd" -> 4
      [] step = "legend" -> 5
      [] step = "title" -> 6
      [] step = "ylabel" -> 7

StepOps(step) == SelectSeq(canvas_, LAMBDA o : o.step = step)

\* C15: the canvas a render pass leaves was drawn in this order: the clear
\* to white, the grid lines (only if grid is on), the axes with their ticks
\* (those of the resolved rectangle), every retained command in insertion
\* order, the legend, the title and then the x label, the y label; dirty_
\* is false after it.
C15_DrawOrder ==
    last.ran =>
        /\ \A i \in 1..Len(canvas_) : \A j \in i..Len(canvas_) :
               /\ StepRank(canvas_[i].step) <= StepRank(canvas_[j].step)
               /\ (canvas_[i].step = "cmd" /\ canvas_[j].step = "cmd")
                      => canvas_[i].k <= canvas_[j].k
        /\ StepOps("clear") = Blank /\ canvas_[1] = Blank[1]
        /\ (StepOps("grid") # <<>>) = axes_.grid
        /\ StepOps("axes") =
               Tag("axes", 0,
                   draw_axes(axes_, make_ticks(axes_.xmin, axes_.xmax, kTickTarget),
                             make_ticks(axes_.ymin, axes_.ymax, kTickTarget)))
        /\ \A k \in 1..Len(cmds_) :
               \E i \in 1..Len(canvas_) : canvas_[i].step = "cmd" /\ canvas_[i].k = k
        /\ (title_ # "" /\ xlabel_ # "")
               => [i \in 1..Len(StepOps("title")) |-> StepOps("title")[i].s.text]
                      = <<title_, xlabel_>>
        /\ (StepOps("ylabel") # <<>>) = (ylabel_ # "")
        /\ ~dirty_

\* A pass over a figure with the grid, two commands, a legend, a title or
\* an x label, and a y label.
C15_Witness ==
    /\ last.ran /\ axes_.grid /\ Len(cmds_) = 2 /\ cmds_[1].type # cmds_[2].type
    /\ StepOps("legend") # <<>> /\ StepOps("title") # <<>> /\ StepOps("ylabel") # <<>>

\* The filled shape kinds, with the primitive that fills and the one that
\* strokes each.
ShapeKinds == {"Circle", "RectXYWH", "RectLTRB", "RotatedRect", "Polygon", "Ellipse"}

FillOf(type) ==
    CASE type = "Circle" -> "circle"
      [] type \in {"RectXYWH", "RectLTRB"} -> "rectangle"
      [] type = "RotatedRect" -> "fillConvexPoly"
      [] type = "Polygon" -> "fillPoly"
      [] type = "Ellipse" -> "ellipse"

StrokeOf(type) ==
    CASE type = "Circle" -> "circle"
      [] type \in {"RectXYWH", "RectLTRB"} -> "rectangle"
      [] type \in {"RotatedRect", "Polygon"} -> "polylines"
      [] type = "Ellipse" -> "ellipse"

\* The primitive calls a pass made for command k.
CmdOps(k) == SelectSeq(canvas_, LAMBDA o : o.step = "cmd" /\ o.k = k)

\* The calls among ops that fill, copy or composite.
FillOps(ops) ==
    SelectSeq(ops, LAMBDA o : o.w = FILLED \/ o.op \in {"clone", "addWeighted"})

\* C16: for every filled shape a pass draws, fill_alpha alone chooses the
\* fill: strictly between 0 and 1 the canvas is copied, the fill is drawn
\* on the copy and the copy is composited back with weights alpha and
\* 1 - alpha; at 1 or above the fill is drawn on the canvas and nothing is
\* copied; at 0 or below nothing is filled.
C16_FillByAlpha ==
    last.ran =>
        \A k \in 1..Len(cmds_) :
            cmds_[k].type \in ShapeKinds =>
                LET st == cmds_[k].style
                    f == FillOps(CmdOps(k))
                    ops(n) == [i \in 1..n |-> f[i].op]
                    dsts(n) == [i \in 1..n |-> f[i].dst]
                IN  IF st.fill_alpha > 0 /\ st.fill_alpha < 100
                    THEN /\ Len(f) = 3
                         /\ ops(3) = <<"clone", FillOf(cmds_[k].type), "addWeighted">>
                         /\ dsts(3) = <<"tmp", "tmp", "canvas">>
                         /\ f[2].c = st.fill_color /\ f[2].w = FILLED
                         /\ f[3].a = <<st.fill_alpha, 100 - st.fill_alpha>>
                    ELSE IF st.fill_alpha >= 100
                    THEN /\ Len(f) = 1
                         /\ ops(1) = <<FillOf(cmds_[k].type)>>
                         /\ dsts(1) = <<"canvas">>
                         /\ f[1].c = st.fill_color /\ f[1].w = FILLED
                    ELSE f = <<>>

\* A pass has drawn a polygon with a translucent fill and a stroke.
C16_Witness ==
    /\ last.ran /\ Len(cmds_) = 1 /\ cmds_[1].type = "Polygon"
    /\ cmds_[1].style.fill_alpha = 50
    /\ Len(CmdOps(1)) = 4

\* C17: for every filled shape a pass draws, the stroke is the last call
\* made for the shape, after the fill and its compositing; it is made on
\* the canvas itself, in the line colour and the integer thickness, and
\* only if the style thickness is above 0.
C17_StrokeAfterFill ==
    last.ran =>
        \A k \in 1..Len(cmds_) :
            cmds_[k].type \in ShapeKinds =>
                LET st == cmds_[k].style
                    ops == CmdOps(k)
                    f == FillOps(ops)
                IN  IF st.thickness > 0
                    THEN /\ Len(ops) = Len(f) + 1
                         /\ SubSeq(ops, 1, Len(f)) = f
                         /\ ops[Len(ops)].op = StrokeOf(cmds_[k].type)
                         /\ ops[Len(ops)].dst = "canvas"
                         /\ ops[Len(ops)].c = st.line_color
                         /\ ops[Len(ops)].w = IntOf(st.thickness)
                    ELSE ops = f

\* A pass has drawn a circle with fill_alpha 0.5 and stroke width 2: the
\* copy, the fill on the copy, the compositing and then the stroke on the
\* canvas.
C17_Witness ==
    /\ last.ran /\ Len(cmds_) = 1 /\ cmds_[1].type = "Circle"
    /\ cmds_[1].style.fill_alpha = 50 /\ cmds_[1].style.thickness = 200
    /\ [i \in 1..Len(CmdOps(1)) |-> <<CmdOps(1)[i].op, CmdOps(1)[i].dst>>]
           = <<<<"clone", "tmp">>, <<"circle", "tmp">>, <<"addWeighted", "canvas">>,
               <<"circle", "canvas">>>>
    /\ CmdOps(1)[4].c = "black" /\ CmdOps(1)[4].w = 2

\* draw_ylabel builds the bitmap exactly when it finds the cache not valid
\* and leaves it valid: a step that turns ylabel_cache_valid_ on.
CacheRebuilt == ~ylabel_cache_valid_ /\ ylabel_cache_valid_'

\* C18 (as claimed): a pass rebuilds the rotated bitmap only if the y label
\* differs from the text the bitmap was last built from.
C18_RebuiltOnlyOnTextChange ==
    [][CacheRebuilt => ylabel_ # ylabel_cache_.text]_vars

\* C18 (amended): a valid cache is left as it is, bitmap and flag, by
\* every call but ylabel(), render passes included; a pass over a figure
\* with a y label leaves the cache valid and holding the bitmap of that
\* label; and a rebuild happens only in a pass, for a non-empty label.
C18_RebuiltOnlyAfterYlabelCall ==
    [][ncalls' # ncalls =>
          /\ (ylabel_cache_valid_ /\ last'.op # "ylabel")
                 => (ylabel_cache_valid_' /\ ylabel_cache_' = ylabel_cache_)
          /\ (last'.ran /\ ylabel_' # "")
                 => (ylabel_cache_valid_' /\ ylabel_cache_' = ylabel_bitmap(ylabel_'))
          /\ CacheRebuilt => (last'.ran /\ ylabel_ # "")
          /\ ylabel_cache_' # ylabel_cache_ => CacheRebuilt]_vars

\* After ylabel("Y"), a pass, ylabel("Y") again and a second pass: the
\* cache is valid again and holds the bitmap it held before.
C18_Witness ==
    /\ last.op = "render" /\ last.ran /\ passes = 2 /\ ncalls = 4
    /\ ylabel_ = "Y" /\ ylabel_cache_valid_ /\ ylabel_cache_.text = "Y"
    /\ title_ = "" /\ ~axes_.grid

\* C19: pad_frac is never negative: it is 0.05 in a new Figure, 0 or the
\* argument after axis_pad (0 for a negative argument), 0 after
\* axis_tight, and no other call changes it.
C19_PadFracNonNegative ==
    [][ncalls' # ncalls =>
          /\ axes_.pad_frac >= 0 /\ axes_'.pad_frac >= 0
          /\ last.op = "Figure" => axes_.pad_frac = (5 * Unit) \div 100
          /\ last'.op = "axis_pad" => axes_'.pad_frac \in {0, U \div 10}
          /\ last'.op = "axis_tight" => axes_'.pad_frac = 0
          /\ last'.op \notin {"axis_pad", "axis_tight"}
                 => axes_'.pad_frac = axes_.pad_frac]_vars

\* axis_pad has returned with the padding at 0, which only its negative
\* argument gives (the other argument of the calls made is 0.1), on a
\* rendered figure.
C19_Witness ==
    /\ last.op = "axis_pad" /\ axes_.pad_frac = 0 /\ passes > 0

\* |cos| and |sin| of an angle in degrees, in ten-thousandths.
AbsCos(deg) ==
    CASE deg = 0 -> 10000 [] deg = 30 -> 8660 [] deg = 45 -> 7071 [] deg = 90 -> 0

AbsSin(deg) ==
    CASE deg = 0 -> 0 [] deg = 30 -> 5000 [] deg = 45 -> 7071 [] deg = 90 -> 10000

RECURSIVE SeqMin(_)
SeqMin(q) == IF Len(q) = 1 THEN q[1] ELSE Min2(q[1], SeqMin(Tail(q)))

RECURSIVE SeqMax(_)
SeqMax(q) == IF Len(q) = 1 THEN q[1] ELSE Max2(q[1], SeqMax(Tail(q)))

Box(x0, x1, y0, y1) == [xmin |-> x0, xmax |-> x1, ymin |-> y0, ymax |-> y1]

\* The box in data space that the geometry of a command reaches, rounded
\* inward to the quantum: the points of a line, a scatter or a polygon, the
\* corners of a rectangle, the circle, and the rotated rectangle and the
\* rotated ellipse at their angle.
Extent(cmd) ==
    CASE cmd.type \in {"Line", "Scatter", "Polygon"} ->
            Box(SeqMin(cmd.x), SeqMax(cmd.x), SeqMin(cmd.y), SeqMax(cmd.y))
      [] cmd.type = "Circle" ->
            Box(cmd.g[1] - cmd.g[3], cmd.g[1] + cmd.g[3],
                cmd.g[2] - cmd.g[3], cmd.g[2] + cmd.g[3])
      [] cmd.type \in {"RectXYWH", "RectLTRB"} ->
            Box(Min2(cmd.g[1], cmd.g[3]), Max2(cmd.g[1], cmd.g[3]),
                Min2(cmd.g[2], cmd.g[4]), Max2(cmd.g[2], cmd.g[4]))
      [] cmd.type = "RotatedRect" ->
            LET c == AbsCos(cmd.g[5])
                n == AbsSin(cmd.g[5])
                hx == (cmd.g[3] * c + cmd.g[4] * n) \div (2 * 10000)
                hy == (cmd.g[3] * n + cmd.g[4] * c) \div (2 * 10000)
            IN  Box(cmd.g[1] - hx, cmd.g[1] + hx, cmd.g[2] - hy, cmd.g[2] + hy)
      [] cmd.type = "Ellipse" ->
            LET c == AbsCos(cmd.g[5])
                n == AbsSin(cmd.g[5])
                a == cmd.g[3] \div 2
                b == cmd.g[4] \div 2
                ac == (a * c) \div 10000
                an == (a * n) \div 10000
                bc == (b * c) \div 10000
                bn == (b * n) \div 10000
                hx == ISqrt(ac * ac + bn * bn)
                hy == ISqrt(an * an + bc * bc)
            IN  Box(cmd.g[1] - hx, cmd.g[1] + hx, cmd.g[2] - hy, cmd.g[2] + hy)

Encloses(b, e) ==
    b.xmin <= e.xmin /\ e.xmax <= b.xmax /\ b.ymin <= e.ymin /\ e.ymax <= b.ymax

\* C20 (as claimed): valid data bounds enclose the data-space geometry of
\* every retained command that bears geometry, the rotated rectangle and
\* the ellipse at any angle.
C20_BoundsEncloseGeometry ==
    valid(data_bounds_) =>
        \A k \in 1..Len(cmds_) :
            cmds_[k].type # "Text" => Encloses(data_bounds_, Extent(cmds_[k]))

\* The x and the y coordinates of a sequence of points.
XsOf(pts) == [i \in 1..Len(pts) |-> pts[i][1]]
YsOf(pts) == [i \in 1..Len(pts) |-> pts[i][2]]

\* C21: a Bounds starts invalid; it is valid exactly when at least one
\* point (of finite coordinates) has been absorbed by expand; its four
\* fields are then the minimum and the maximum of the absorbed x and y
\* values, so that xmin <= xmax and ymin <= ymax; and an expand never
\* shrinks the box.
C21_BoundsAreMinMax ==
    probe.fn = "expand" =>
        LET b == probe.b
            pts == probe.pts
        IN  /\ valid(b) <=> Len(pts) > 0
            /\ Len(pts) = 0 => b = BoundsInit
            /\ Len(pts) > 0 =>
                   /\ b.xmin = SeqMin(XsOf(pts)) /\ b.xmax = SeqMax(XsOf(pts))
                   /\ b.ymin = SeqMin(YsOf(pts)) /\ b.ymax = SeqMax(YsOf(pts))
                   /\ b.xmin <= b.xmax /\ b.ymin <= b.ymax
            /\ b.xmin <= probe.was.xmin /\ b.xmax >= probe.was.xmax
            /\ b.ymin <= probe.was.ymin /\ b.ymax >= probe.was.ymax

\* Three points have been absorbed, and the last one lies inside the box of
\* the first two in x and outside it in y.
C21_Witness ==
    /\ probe.fn = "expand" /\ Len(probe.pts) = 3
    /\ probe.b.xmin = probe.was.xmin /\ probe.b.xmax = probe.was.xmax
    /\ probe.was.xmin < probe.pts[3][1] /\ probe.pts[3][1] < probe.was.xmax
    /\ probe.b.ymin < probe.was.ymin

\* C22 (as claimed): under an axis rectangle of positive spans every data
\* point of a retained command, inside or outside the rectangle, maps to
\* the pixel (kMarginLeft + round(xf * plot_width),
\* height - kMarginBottom - round(yf * plot_height)), xf and yf being its
\* fractions of the spans and round the rounding to the nearest integer.
C22_PixelIsRounded ==
    (axes_.xmax > axes_.xmin /\ axes_.ymax > axes_.ymin) =>
        \A k \in 1..Len(cmds_) : \A i \in 1..Len(cmds_[k].x) :
            LET x == cmds_[k].x[i]
                y == cmds_[k].y[i]
            IN  data_to_pixel(axes_, x, y) =
                    <<kMarginLeft
                        + RoundDiv((x - axes_.xmin) * plot_width, axes_.xmax - axes_.xmin),
                      height_ - kMarginBottom
                        - RoundDiv((y - axes_.ymin) * plot_height, axes_.ymax - axes_.ymin)>>

\* max(|lo| * 1e-3, 1e-3).
MaxEps(lo) == Max2(RoundDiv(Abs(lo), 1000), Unit \div 1000)

\* C23 (as claimed): fix_ranges moves the two ends of an axis whose limits
\* are equal apart by max(|min| * 1e-3, 1e-3) on each side, whatever the
\* value of min, and leaves an axis whose limits differ unchanged.
C23_PerturbedByMax ==
    (probe.fn = "fix_ranges" /\ probe.done) =>
        LET a == probe.a
            out == probe.out
        IN  /\ IF a.xmin = a.xmax
               THEN out.xmin = a.xmin - MaxEps(a.xmin) /\ out.xmax = a.xmax + MaxEps(a.xmin)
               ELSE out.xmin = a.xmin /\ out.xmax = a.xmax
            /\ IF a.ymin = a.ymax
               THEN out.ymin = a.ymin - MaxEps(a.ymin) /\ out.ymax = a.ymax + MaxEps(a.ymin)
               ELSE out.ymin = a.ymin /\ out.ymax = a.ymax

\* C24: for every location string, keyword or not, the box of a legend
\* that is not larger than the plot rectangle lies inside the plot pixel
\* rectangle when it is placed at the anchor legend_anchor returns.
C24_AnchorInsidePlotRect ==
    (probe.fn = "legend_anchor" /\ probe.done
        /\ probe.boxW <= plot_width /\ probe.boxH <= plot_height) =>
            /\ kMarginLeft <= probe.out[1]
            /\ probe.out[1] + probe.boxW <= width_ - kMarginRight
            /\ kMarginTop <= probe.out[2]
            /\ probe.out[2] + probe.boxH <= height_ - kMarginBottom

\* A location that is no keyword has fallen back to the bottom-right
\* corner, for a box as wide as the plot rectangle.
C24_Witness ==
    /\ probe.fn = "legend_anchor" /\ probe.done /\ probe.loc = "upperLeft"
    /\ probe.boxW = plot_width /\ probe.boxH < plot_height
    /\ probe.out = <<kMarginLeft, height_ - kMarginBottom - probe.boxH>>

\* C25 (as claimed): with autoscale off and no set_xlim / set_ylim call in
\* between, a render pass that follows an earlier pass resolves the limits
\* that the earlier pass left, whatever pad_frac is.
C25_RerenderKeepsLimits ==
    [][(passes' = passes + 1 /\ passes >= 1
          /\ ~axes_.autoscale /\ ~clean.axes.autoscale
          /\ LimitsOf(axes_) = LimitsOf(clean.axes))
          => LimitsOf(axes_') = LimitsOf(axes_)]_vars

\* The rectangle that a Figure fresh from its constructor resolves from
\* the bounds b under pad_frac = frac and equal_scale = eq.
FreshResolved(b, frac, eq) ==
    LimitsOf(resolve_axes([AxesInit EXCEPT !.pad_frac = frac, !.equal_scale = eq], b))

\* C26: with autoscale on, the rectangle a render pass resolves is a
\* function of the data bounds, pad_frac and equal_scale alone: it is the
\* rectangle a fresh Figure with these bounds and this policy resolves,
\* whatever limits set_xlim / set_ylim and earlier passes have left.
C26_ResolvedFromBoundsAndPolicy ==
    (last.op = "render" /\ last.ran /\ axes_.autoscale) =>
        LimitsOf(axes_) = FreshResolved(data_bounds_, axes_.pad_frac, axes_.equal_scale)

\* A second render pass with autoscale on, over data under a padding that
\* the caller has chosen.
C26_Witness ==
    /\ last.op = "render" /\ last.ran /\ axes_.autoscale /\ passes = 2
    /\ valid(data_bounds_) /\ axes_.pad_frac = U \div 10

\* Every retained command is a text annotation, and there is one at least.
OnlyText == Len(cmds_) > 0 /\ \A k \in 1..Len(cmds_) : cmds_[k].type = "Text"

\* C27: text() appends one Text command and sets dirty_, and leaves the
\* data bounds as they are, wherever the anchor lies; so a figure that
\* holds text annotations only has invalid bounds, and a pass with
\* autoscale resolves it to the (padded) unit square.
C27_TextLeavesBounds ==
    /\ [][(ncalls' # ncalls /\ last'.op = "text") =>
             /\ data_bounds_' = data_bounds_
             /\ Len(cmds_') = Len(cmds_) + 1
             /\ SubSeq(cmds_', 1, Len(cmds_)) = cmds_
             /\ cmds_'[Len(cmds_')].type = "Text"
             /\ dirty_']_vars
    /\ [](OnlyText =>
             /\ ~valid(data_bounds_)
             /\ (last.ran /\ axes_.autoscale) =>
                    LimitsOf(axes_) = <<-axes_.pad_frac, Unit + axes_.pad_frac,
                                        -axes_.pad_frac, Unit + axes_.pad_frac>>)

\* A pass has drawn a point and a text annotation whose anchor lies outside
\* the bounds of the point: the resolved rectangle does not reach the
\* anchor.
C27_Witness ==
    /\ last.ran /\ axes_.autoscale /\ Len(cmds_) = 2
    /\ cmds_[1].type = "Line" /\ cmds_[2].type = "Text"
    /\ cmds_[2].g[1] < axes_.xmin /\ cmds_[2].g[2] < axes_.ymin

\* The circle primitives that the pass has drawn for the Circle commands.
CircleOps ==
    {i \in 1..Len(canvas_) :
        /\ canvas_[i].step = "cmd" /\ canvas_[i].op = "circle"
        /\ cmds_[canvas_[i].k].type = "Circle"}

\* C28 (as claimed): after a pass with autoscale, the pixel disc of every
\* circle command (centre and radius as handed to the primitive) lies
\* inside the plot pixel rectangle on both axes, within 1 px.
C28_CircleInPlotRect ==
    (last.ran /\ axes_.autoscale) =>
        \A i \in CircleOps :
            LET cx == canvas_[i].a[1]
                cy == canvas_[i].a[2]
                r == canvas_[i].a[3]
            IN  /\ kMarginLeft - 1 <= cx - r /\ cx + r <= width_ - kMarginRight + 1
                /\ kMarginTop - 1 <= cy - r /\ cy + r <= height_ - kMarginBottom + 1

\* C30: whenever ylabel_cache_valid_ is true, ylabel_ is not empty and
\* ylabel_cache_ is the bitmap built from it: ylabel() clears the flag,
\* only a render pass over a non-empty label sets it, and it sets it with
\* the bitmap of that label; a pass over an empty label leaves the flag
\* and the cache alone and blits nothing.
C30_ValidCacheIsCurrent ==
    /\ [](ylabel_cache_valid_ =>
             ylabel_ # "" /\ ylabel_cache_ = ylabel_bitmap(ylabel_))
    /\ []((last.ran /\ ylabel_ = "") =>
             \A i \in 1..Len(canvas_) : canvas_[i].step # "ylabel")
    /\ [][/\ (ncalls' # ncalls /\ last'.op = "ylabel") => ~ylabel_cache_valid_'
          /\ (ylabel_cache_valid_' /\ ~ylabel_cache_valid_) =>
                 /\ passes' = passes + 1 /\ ylabel_ # ""
                 /\ ylabel_cache_' = ylabel_bitmap(ylabel_)
          /\ (passes' = passes + 1 /\ ylabel_ = "") =>
                 UNCHANGED <<ylabel_cache_, ylabel_cache_valid_>>]_vars

\* The cache is valid for a second label text, after it was valid for a
\* first one: the bitmap in it shows the second text.
C30_Witness ==
    /\ ylabel_cache_valid_ /\ ylabel_ = "Z" /\ ylabel_cache_.text = "Z"
    /\ passes = 2 /\ ncalls = 4 /\ last.ran

\* The retained commands of which the canvas shows nothing.
Undrawn ==
    {k \in 1..Len(cmds_) :
        \A i \in 1..Len(canvas_) : ~(canvas_[i].step = "cmd" /\ canvas_[i].k = k)}

\* No call is rendering, dirty_ is false and a retained command is not on
\* the canvas.
Stale == pc.at = "idle" /\ ~dirty_ /\ Undrawn # {}

\* C29: without a lock, an append call that runs on one thread while a
\* render pass runs on another can leave the figure stale (dirty_ false, a
\* retained command not on the canvas); and from a stale figure every
\* render(), show() and save() call returns without a pass,
\* leaving the canvas and dirty_ as they are, so the figure stays stale
\* until a mutating call sets dirty_ again.
C29_StaleUntilMutation ==
    [][(Stale /\ ncalls' # ncalls /\ last'.op \in {"render", "show", "save"}) =>
          /\ canvas_' = canvas_ /\ ~dirty_' /\ pc' = pc /\ passes' = passes
          /\ ~last'.ran /\ Retained' = Retained
          /\ Stale']_vars

\* A pass has finished with dirty_ = false over a canvas without the line
\* that was appended while it ran, and a later show() has returned without
\* a pass.
C29_Witness ==
    /\ Stale /\ passes = 1 /\ last.op = "show" /\ ~last.ran
    /\ Len(cmds_) = 1 /\ cmds_[1].type = "Line" /\ Undrawn = {1}

=============================================================================
